---- MODULE Spec2Model ----
(***************************************************************************)
(* The signing pipeline of hyperliquid-go (package utils): numeric and     *)
(* order wire conversion, ActionHash, the phantom agent, the EIP-712 typed *)
(* data of L1 and user-signed actions, and SignInner.                      *)
(*                                                                         *)
(* Go values are represented as follows.                                   *)
(*   - a string the code parses, formats or serialises is a sequence of    *)
(*     one-character strings; string literals of the source are written as *)
(*     TLA+ strings and turned into characters by Chars;                   *)
(*   - a []byte is a sequence of numbers in 0..255;                        *)
(*   - a pointer (or any value that may be nil) is <<>> for nil and <<v>>  *)
(*     for a pointer to v;                                                 *)
(*   - a map[string]interface{} is a function from keys to values; a Go    *)
(*     map has no order of its own, so every place that ranges over a map  *)
(*     takes the order of the visit as an extra argument, chosen by the    *)
(*     runtime.                                                            *)
(***************************************************************************)
EXTENDS Integers, Sequences, FiniteSets, TLC

VARIABLES pc, in, out, again

vars == <<pc, in, out, again>>

None == <<>>
Some(x) == <<x>>

(***************************************************************************)
(* Text and bytes                                                          *)
(***************************************************************************)

\* The ASCII characters U+0020 to U+005F and U+0061 to U+007E, in code order.
Printable ==
  <<
    " ", "!", "\"", "#", "$", "%", "&", "'", "(", ")", "*", "+", ",", "-", ".", "/",
    "0", "1", "2", "3", "4", "5", "6", "7", "8", "9", ":", ";", "<", "=", ">", "?",
    "@", "A", "B", "C", "D", "E", "F", "G", "H", "I", "J", "K", "L", "M", "N", "O",
    "P", "Q", "R", "S", "T", "U", "V", "W", "X", "Y", "Z", "[", "\\", "]", "^", "_"
  >>

PrintableHigh ==
  <<
    "a", "b", "c", "d", "e", "f", "g", "h", "i", "j", "k", "l", "m", "n", "o", "p",
    "q", "r", "s", "t", "u", "v", "w", "x", "y", "z", "{", "|", "}", "~"
  >>

CharCodes ==
    [c \in {Printable[i] : i \in 1..Len(Printable)}
            \cup {PrintableHigh[i] : i \in 1..Len(PrintableHigh)} |->
        IF \E i \in 1..Len(Printable) : Printable[i] = c
        THEN 31 + (CHOOSE i \in 1..Len(Printable) : Printable[i] = c)
        ELSE 96 + (CHOOSE i \in 1..Len(PrintableHigh) : PrintableHigh[i] = c)]

\* The bytes of a Go string (UTF-8; the model's strings are ASCII).
StrBytes(cs) == [i \in 1..Len(cs) |-> CharCodes[cs[i]]]

\* The characters of the string literals of the source.
Chars(s) ==
    CASE s = "type" -> <<"t","y","p","e">>
      [] s = "orders" -> <<"o","r","d","e","r","s">>
      [] s = "grouping" -> <<"g","r","o","u","p","i","n","g">>
      [] s = "builder" -> <<"b","u","i","l","d","e","r">>
      [] s = "order" -> <<"o","r","d","e","r">>
      [] s = "cancel" -> <<"c","a","n","c","e","l">>
      [] s = "cancels" -> <<"c","a","n","c","e","l","s">>
      [] s = "updateLeverage" -> <<"u","p","d","a","t","e","L","e","v","e","r","a","g","e">>
      [] s = "asset" -> <<"a","s","s","e","t">>
      [] s = "isCross" -> <<"i","s","C","r","o","s","s">>
      [] s = "leverage" -> <<"l","e","v","e","r","a","g","e">>
      [] s = "o" -> <<"o">>
      [] s = "na" -> <<"n","a">>
      [] s = "test-builder" -> <<"t","e","s","t","-","b","u","i","l","d","e","r">>
      [] s = "A" -> <<"A">>
      [] s = "B" -> <<"B">>
      [] s = "P" -> <<"P">>
      [] s = "S" -> <<"S">>
      [] s = "R" -> <<"R">>
      [] s = "T" -> <<"T">>
      [] s = "C" -> <<"C">>
      [] s = "Limit" -> <<"L","i","m","i","t">>
      [] s = "Trigger" -> <<"T","r","i","g","g","e","r">>
      [] s = "TIF" -> <<"T","I","F">>
      [] s = "TriggerPx" -> <<"T","r","i","g","g","e","r","P","x">>
      [] s = "IsMarket" -> <<"I","s","M","a","r","k","e","t">>
      [] s = "TPSL" -> <<"T","P","S","L">>
      [] s = "Alo" -> <<"A","l","o">>
      [] s = "Ioc" -> <<"I","o","c">>
      [] s = "Gtc" -> <<"G","t","c">>
      [] s = "tp" -> <<"t","p">>
      [] s = "sl" -> <<"s","l">>
      [] s = "EIP712Domain" -> <<"E","I","P","7","1","2","D","o","m","a","i","n">>
      [] s = "name" -> <<"n","a","m","e">>
      [] s = "version" -> <<"v","e","r","s","i","o","n">>
      [] s = "chainId" -> <<"c","h","a","i","n","I","d">>
      [] s = "verifyingContract" -> <<"v","e","r","i","f","y","i","n","g","C","o","n","t","r","a","c","t">>
      [] s = "string" -> <<"s","t","r","i","n","g">>
      [] s = "uint256" -> <<"u","i","n","t","2","5","6">>
      [] s = "address" -> <<"a","d","d","r","e","s","s">>
      [] s = "Agent" -> <<"A","g","e","n","t">>
      [] s = "source" -> <<"s","o","u","r","c","e">>
      [] s = "connectionId" -> <<"c","o","n","n","e","c","t","i","o","n","I","d">>
      [] s = "bytes32" -> <<"b","y","t","e","s","3","2">>
      [] s = "Exchange" -> <<"E","x","c","h","a","n","g","e">>
      [] s = "1" -> <<"1">>
      [] s = "a" -> <<"a">>
      [] s = "b" -> <<"b">>
      [] s = "HyperliquidSignTransaction" -> <<"H","y","p","e","r","l","i","q","u","i","d","S","i","g","n","T","r","a","n","s","a","c","t","i","o","n">>
      [] s = "signatureChainId" -> <<"s","i","g","n","a","t","u","r","e","C","h","a","i","n","I","d">>
      [] s = "hyperliquidChain" -> <<"h","y","p","e","r","l","i","q","u","i","d","C","h","a","i","n">>
      [] s = "Mainnet" -> <<"M","a","i","n","n","e","t">>
      [] s = "Testnet" -> <<"T","e","s","t","n","e","t">>
      [] s = "0x66eee" -> <<"0","x","6","6","e","e","e">>
      [] s = "0x0000000000000000000000000000000000000000" -> <<"0","x","0","0","0","0","0","0","0","0","0","0","0","0","0","0","0","0","0","0","0","0","0","0","0","0","0","0","0","0","0","0","0","0","0","0","0","0","0","0","0","0">>
      [] s = "destination" -> <<"d","e","s","t","i","n","a","t","i","o","n">>
      [] s = "amount" -> <<"a","m","o","u","n","t">>
      [] s = "time" -> <<"t","i","m","e">>
      [] s = "uint64" -> <<"u","i","n","t","6","4">>
      [] s = "token" -> <<"t","o","k","e","n">>
      [] s = "toPerp" -> <<"t","o","P","e","r","p">>
      [] s = "bool" -> <<"b","o","o","l">>
      [] s = "nonce" -> <<"n","o","n","c","e">>
      [] s = "sourceDex" -> <<"s","o","u","r","c","e","D","e","x">>
      [] s = "destinationDex" -> <<"d","e","s","t","i","n","a","t","i","o","n","D","e","x">>
      [] s = "fromSubAccount" -> <<"f","r","o","m","S","u","b","A","c","c","o","u","n","t">>
      [] s = "validator" -> <<"v","a","l","i","d","a","t","o","r">>
      [] s = "wei" -> <<"w","e","i">>
      [] s = "isUndelegate" -> <<"i","s","U","n","d","e","l","e","g","a","t","e">>
      [] s = "signers" -> <<"s","i","g","n","e","r","s">>
      [] s = "multiSigActionHash" -> <<"m","u","l","t","i","S","i","g","A","c","t","i","o","n","H","a","s","h">>
      [] s = "agentAddress" -> <<"a","g","e","n","t","A","d","d","r","e","s","s">>
      [] s = "agentName" -> <<"a","g","e","n","t","N","a","m","e">>
      [] s = "maxFeeRate" -> <<"m","a","x","F","e","e","R","a","t","e">>
      [] s = "HyperliquidTransaction:UsdSend" -> <<"H","y","p","e","r","l","i","q","u","i","d","T","r","a","n","s","a","c","t","i","o","n",":","U","s","d","S","e","n","d">>
      [] s = "HyperliquidTransaction:SpotSend" -> <<"H","y","p","e","r","l","i","q","u","i","d","T","r","a","n","s","a","c","t","i","o","n",":","S","p","o","t","S","e","n","d">>
      [] s = "HyperliquidTransaction:Withdraw" -> <<"H","y","p","e","r","l","i","q","u","i","d","T","r","a","n","s","a","c","t","i","o","n",":","W","i","t","h","d","r","a","w">>
      [] s = "HyperliquidTransaction:UsdClassTransfer" -> <<"H","y","p","e","r","l","i","q","u","i","d","T","r","a","n","s","a","c","t","i","o","n",":","U","s","d","C","l","a","s","s","T","r","a","n","s","f","e","r">>
      [] s = "HyperliquidTransaction:SendAsset" -> <<"H","y","p","e","r","l","i","q","u","i","d","T","r","a","n","s","a","c","t","i","o","n",":","S","e","n","d","A","s","s","e","t">>
      [] s = "HyperliquidTransaction:TokenDelegate" -> <<"H","y","p","e","r","l","i","q","u","i","d","T","r","a","n","s","a","c","t","i","o","n",":","T","o","k","e","n","D","e","l","e","g","a","t","e">>
      [] s = "HyperliquidTransaction:ConvertToMultiSigUser" -> <<"H","y","p","e","r","l","i","q","u","i","d","T","r","a","n","s","a","c","t","i","o","n",":","C","o","n","v","e","r","t","T","o","M","u","l","t","i","S","i","g","U","s","e","r">>
      [] s = "HyperliquidTransaction:MultiSigEnvelope" -> <<"H","y","p","e","r","l","i","q","u","i","d","T","r","a","n","s","a","c","t","i","o","n",":","M","u","l","t","i","S","i","g","E","n","v","e","l","o","p","e">>
      [] s = "HyperliquidTransaction:ApproveAgent" -> <<"H","y","p","e","r","l","i","q","u","i","d","T","r","a","n","s","a","c","t","i","o","n",":","A","p","p","r","o","v","e","A","g","e","n","t">>
      [] s = "HyperliquidTransaction:ApproveBuilderFee" -> <<"H","y","p","e","r","l","i","q","u","i","d","T","r","a","n","s","a","c","t","i","o","n",":","A","p","p","r","o","v","e","B","u","i","l","d","e","r","F","e","e">>
      [] s = "usdSend" -> <<"u","s","d","S","e","n","d">>
      [] s = "sendAsset" -> <<"s","e","n","d","A","s","s","e","t">>
      [] s = "0123456789abcdef" -> <<"0","1","2","3","4","5","6","7","8","9","a","b","c","d","e","f">>
      [] s = "0x" -> <<"0","x">>
      [] s = "usdClassTransfer" -> <<"u","s","d","C","l","a","s","s","T","r","a","n","s","f","e","r">>
      [] s = "1000000" -> <<"1","0","0","0","0","0","0">>
      [] s = "421614" -> <<"4","2","1","6","1","4">>
      [] s = "66eee" -> <<"6","6","e","e","e">>
      [] s = "-0.00000000" -> <<"-","0",".","0","0","0","0","0","0","0","0">>
      [] s = "0.00000000" -> <<"0",".","0","0","0","0","0","0","0","0">>
      [] s = "test-cloid" -> <<"t","e","s","t","-","c","l","o","i","d">>
      [] s = "BTC" -> <<"B","T","C">>
      [] s = "allMids" -> <<"a","l","l","M","i","d","s">>
      [] s = "l2Book:" -> <<"l","2","B","o","o","k",":">>
      [] s = "trades:" -> <<"t","r","a","d","e","s",":">>
      [] s = "userEvents" -> <<"u","s","e","r","E","v","e","n","t","s">>
      [] s = "userFills:" -> <<"u","s","e","r","F","i","l","l","s",":">>
      [] s = "candle:" -> <<"c","a","n","d","l","e",":">>
      [] s = "orderUpdates" -> <<"o","r","d","e","r","U","p","d","a","t","e","s">>
      [] s = "userFundings:" -> <<"u","s","e","r","F","u","n","d","i","n","g","s",":">>
      [] s = "userNonFundingLedgerUpdates:" -> <<"u","s","e","r","N","o","n","F","u","n","d","i","n","g","L","e","d","g","e","r","U","p","d","a","t","e","s",":">>
      [] s = "webData2:" -> <<"w","e","b","D","a","t","a","2",":">>
      [] s = "bbo:" -> <<"b","b","o",":">>
      [] s = "activeAssetCtx:" -> <<"a","c","t","i","v","e","A","s","s","e","t","C","t","x",":">>
      [] s = "activeAssetData:" -> <<"a","c","t","i","v","e","A","s","s","e","t","D","a","t","a",":">>
      [] s = "pong" -> <<"p","o","n","g">>
      [] s = "," -> <<",">>
      [] s = "btc" -> <<"b","t","c">>
      [] s = "1m" -> <<"1","m">>

\* The concatenation of the sequences seqs[lo..hi].
RECURSIVE FlattenRange(_, _, _)
FlattenRange(seqs, lo, hi) ==
    IF lo > hi THEN <<>>
    ELSE IF lo = hi THEN seqs[lo]
    ELSE FlattenRange(seqs, lo, (lo + hi) \div 2)
         \o FlattenRange(seqs, ((lo + hi) \div 2) + 1, hi)

Flatten(seqs) == FlattenRange(seqs, 1, Len(seqs))

\* The decimal digits of a non-negative integer (strconv / fmt %d).
RECURSIVE IntDigits(_)
IntDigits(n) ==
    IF n < 10 THEN <<Printable[17 + n]>>
    ELSE IntDigits(n \div 10) \o <<Printable[17 + (n % 10)]>>

HexAlphabet == Chars("0123456789abcdef")

\* encoding/hex.EncodeToString: two lower-case digits per byte.
HexEncodeToString(bytes) ==
    [i \in 1..(2 * Len(bytes)) |->
        IF i % 2 = 1 THEN HexAlphabet[(bytes[(i + 1) \div 2] \div 16) + 1]
        ELSE HexAlphabet[(bytes[i \div 2] % 16) + 1]]

\* encoding/hex fromHexChar: the value of a hex digit, -1 for any other character.
FromHexChar(c) ==
    LET code == CharCodes[c] IN
    IF code >= 48 /\ code <= 57 THEN code - 48
    ELSE IF code >= 97 /\ code <= 102 THEN code - 97 + 10
    ELSE IF code >= 65 /\ code <= 70 THEN code - 65 + 10
    ELSE -1

\* encoding/hex.DecodeString: an error on a character that is no hex digit
\* and on an odd number of characters.
HexDecodeString(cs) ==
    IF (\E i \in 1..Len(cs) : FromHexChar(cs[i]) = -1) \/ Len(cs) % 2 = 1
    THEN [err |-> TRUE, bytes |-> <<>>]
    ELSE [err |-> FALSE,
          bytes |-> [i \in 1..(Len(cs) \div 2) |->
                        16 * FromHexChar(cs[2 * i - 1]) + FromHexChar(cs[2 * i])]]

HasPrefix(cs, p) == Len(cs) >= Len(p) /\ SubSeq(cs, 1, Len(p)) = p
TrimPrefix(cs, p) == IF HasPrefix(cs, p) THEN SubSeq(cs, Len(p) + 1, Len(cs)) ELSE cs

\* A variant that drops the leading zero digits, as the encoding of a number
\* would.
RECURSIVE TrimLeft(_, _)
TrimLeft(cs, c) == IF cs # <<>> /\ cs[1] = c THEN TrimLeft(Tail(cs), c) ELSE cs

HexutilEncodeNumber(bytes) == Chars("0x") \o TrimLeft(HexEncodeToString(bytes), "0")

\* hexutil.Encode: "0x" followed by the hex digits of the bytes.
HexutilEncode(bytes) == Chars("0x") \o HexEncodeToString(bytes)

(***************************************************************************)
(* MessagePack, as msgpack.Marshal writes the values of an order action    *)
(***************************************************************************)

\* Encoder.EncodeString: fixstr up to 31 bytes, str8 above.
EncodeString(cs) ==
    LET b == StrBytes(cs) IN
    IF Len(b) < 32 THEN <<160 + Len(b)>> \o b ELSE <<217, Len(b)>> \o b

EncodeBool(b) == <<IF b THEN 195 ELSE 194>>

EncodeNil == <<192>>

\* Encoder.EncodeInt of a Go int: the shortest form that holds it.
EncodeInt(n) ==
    IF n < 0 THEN <<256 + n>>
    ELSE IF n < 128 THEN <<n>>
    ELSE IF n < 256 THEN <<204, n>>
    ELSE IF n < 65536 THEN <<205, n \div 256, n % 256>>
    ELSE <<206, (n \div 16777216) % 256, (n \div 65536) % 256, (n \div 256) % 256, n % 256>>

\* A struct is written as a map from the Go field names (the types carry
\* json tags only) to all of its fields, nil pointers included.
EncodeLimitOrderType(l) ==
    <<129>> \o EncodeString(Chars("TIF")) \o EncodeString(Chars(l.TIF))

EncodeTriggerOrderTypeWire(t) ==
    <<131>> \o EncodeString(Chars("TriggerPx")) \o EncodeString(t.TriggerPx)
            \o EncodeString(Chars("IsMarket")) \o EncodeBool(t.IsMarket)
            \o EncodeString(Chars("TPSL")) \o EncodeString(Chars(t.TPSL))

EncodeOrderTypeWire(t) ==
    <<130>> \o EncodeString(Chars("Limit"))
            \o (IF t.Limit = None THEN EncodeNil ELSE EncodeLimitOrderType(t.Limit[1]))
            \o EncodeString(Chars("Trigger"))
            \o (IF t.Trigger = None THEN EncodeNil ELSE EncodeTriggerOrderTypeWire(t.Trigger[1]))

EncodeOrderWire(w) ==
    <<135>> \o EncodeString(Chars("A")) \o EncodeInt(w.A)
            \o EncodeString(Chars("B")) \o EncodeBool(w.B)
            \o EncodeString(Chars("P")) \o EncodeString(w.P)
            \o EncodeString(Chars("S")) \o EncodeString(w.S)
            \o EncodeString(Chars("R")) \o EncodeBool(w.R)
            \o EncodeString(Chars("T")) \o EncodeOrderTypeWire(w.T)
            \o EncodeString(Chars("C"))
            \o (IF w.C = None THEN EncodeNil ELSE EncodeString(w.C[1]))

\* A cancel of Exchange.BulkCancel, a map of "a" and "o" to two ints.  range
\* is no entry of the map: it is the order in which the range over this map
\* visits its keys.
EncodeCancel(c) ==
    <<130>> \o Flatten([i \in 1..2 |->
                           EncodeString(Chars(c.range[i])) \o EncodeInt(c[c.range[i]])])

\* The value under a key of an L1 action: the slice of wire orders under
\* "orders", the slice of cancels under "cancels", an int under "asset" and
\* "leverage", a bool under "isCross", a string under every other key.
EncodeActionValue(key, v) ==
    IF key = "orders"
    THEN <<144 + Len(v)>> \o Flatten([i \in 1..Len(v) |-> EncodeOrderWire(v[i])])
    ELSE IF key = "cancels"
    THEN <<144 + Len(v)>> \o Flatten([i \in 1..Len(v) |-> EncodeCancel(v[i])])
    ELSE IF key \in {"asset", "leverage"} THEN EncodeInt(v)
    ELSE IF key = "isCross" THEN EncodeBool(v)
    ELSE EncodeString(Chars(v))

\* The orders in which a range over the map can visit its keys.
IterationOrders(m) ==
    {s \in [1..Cardinality(DOMAIN m) -> DOMAIN m] :
        \A i, j \in 1..Cardinality(DOMAIN m) : s[i] = s[j] => i = j}

\* Encoder.EncodeMap: the length, then key and value of every entry in the
\* order the range over the map visits them (no key sorting is switched on).
EncodeMap(m, iter) ==
    <<128 + Len(iter)>> \o
    Flatten([i \in 1..Len(iter) |->
                EncodeString(Chars(iter[i])) \o EncodeActionValue(iter[i], m[iter[i]])])

(***************************************************************************)
(* Keccak-256.  The digest itself is outside what TLC can compute; this    *)
(* stand-in keeps what the pipeline relies on: a fixed function from byte  *)
(* strings to 32 bytes that depends on every byte and on their order.      *)
(***************************************************************************)

\* A polynomial digest of data[lo..hi] in two lanes, with the power of the
\* base that a longer prefix is shifted by.
RECURSIVE Absorb(_, _, _)
Absorb(data, lo, hi) ==
    IF lo > hi THEN [h1 |-> 0, p1 |-> 1, h2 |-> 0, p2 |-> 1]
    ELSE IF lo = hi
    THEN [h1 |-> data[lo] + 1, p1 |-> 131, h2 |-> data[lo] + 3, p2 |-> 263]
    ELSE LET mid == (lo + hi) \div 2
             l == Absorb(data, lo, mid)
             r == Absorb(data, mid + 1, hi)
         IN  [h1 |-> (l.h1 * r.p1 + r.h1) % 46337, p1 |-> (l.p1 * r.p1) % 46337,
              h2 |-> (l.h2 * r.p2 + r.h2) % 46327, p2 |-> (l.p2 * r.p2) % 46327]

Keccak256(data) ==
    LET st == Absorb(data, 1, Len(data)) IN
    [i \in 1..32 |->
        ((IF i % 2 = 1 THEN st.h1 ELSE st.h2) \div (1 + ((i - 1) \div 2))
         + i * (st.h1 + st.h2 + Len(data))) % 256]

(***************************************************************************)
(* ActionHash                                                              *)
(***************************************************************************)

\* width bytes of n, most significant first: the loop fills the slice from
\* its last index down with n & 0xff and shifts n right by 8.
RECURSIVE ShiftRight8(_, _)
ShiftRight8(n, times) == IF times = 0 THEN n ELSE ShiftRight8(n \div 256, times - 1)

\* A variant that fills the slice from its first index up.
LittleEndian(n, width) == [i \in 1..width |-> ShiftRight8(n, i - 1) % 256]

BigEndian(n, width) == [i \in 1..width |-> ShiftRight8(n, width - i) % 256]

AddressToBytes(address) == HexDecodeString(TrimPrefix(address, Chars("0x")))

\* iter is the order in which msgpack.Marshal's range visits the action.
\* data and packed are not returned by the code: they record the byte stream
\* that went into the hash and its serialised-action prefix.
ActionHash(action, vaultAddress, nonce, expiresAfter, iter) ==
    LET packed == EncodeMap(action, iter)
        d1 == packed \o BigEndian(nonce, 8)
        vault == IF vaultAddress = None THEN [err |-> FALSE, bytes |-> <<>>]
                 ELSE AddressToBytes(vaultAddress[1])
        d2 == IF vaultAddress = None THEN d1 \o <<0>> ELSE d1 \o <<1>> \o vault.bytes
        d3 == IF expiresAfter # None
              THEN d2 \o <<0>> \o BigEndian(expiresAfter[1], 8)
              ELSE d2
    IN  IF vault.err
        THEN [err |-> TRUE, hash |-> <<>>, data |-> <<>>, packed |-> packed]
        ELSE [err |-> FALSE, hash |-> Keccak256(d3), data |-> d3, packed |-> packed]

\* A variant that leaves the builder out.
OrderWiresToOrderActionNoBuilder(orderWires, builder) ==
    [type |-> "order", orders |-> orderWires, grouping |-> "na"]

\* OrderWiresToOrderAction
OrderWiresToOrderAction(orderWires, builder) ==
    LET action == [type |-> "order", orders |-> orderWires, grouping |-> "na"] IN
    IF builder # None THEN action @@ ("builder" :> builder[1]) ELSE action

(***************************************************************************)
(* EIP-712 typed data (go-ethereum apitypes) and SignInner                 *)
(***************************************************************************)

\* Values of a map[string]interface{}: the dynamic Go type and the value.
Str(cs) == [t |-> "string", v |-> cs]
BigInt(n) == [t |-> "*big.Int", v |-> n]
Uint64(n) == [t |-> "uint64", v |-> n]
Int64(n) == [t |-> "int64", v |-> n]
Bool(b) == [t |-> "bool", v |-> b]

Field(name, type) == [Name |-> name, Type |-> type]

EIP712DomainType ==
    << Field("name", "string"), Field("version", "string"),
       Field("chainId", "uint256"), Field("verifyingContract", "address") >>

ZeroAddress == Chars("0x0000000000000000000000000000000000000000")

\* TypedDataDomain.Map: the fields of the domain that are set.
DomainMap(domain) ==
    [chainId |-> BigInt(domain.ChainId),
     name |-> Str(domain.Name),
     version |-> Str(domain.Version),
     verifyingContract |-> Str(domain.VerifyingContract)]

\* TypedData.EncodeType for a type of primitive fields:
\* Name(type1 name1,type2 name2,...).
RECURSIVE JoinFields(_, _)
JoinFields(fields, i) ==
    IF i > Len(fields) THEN <<>>
    ELSE (IF i > 1 THEN <<",">> ELSE <<>>)
         \o Chars(fields[i].Type) \o <<" ">> \o Chars(fields[i].Name)
         \o JoinFields(fields, i + 1)

EncodeType(types, primaryType) ==
    Chars(primaryType) \o <<"(">> \o JoinFields(types[primaryType], 1) \o <<")">>

\* hexutil.Decode: needs the 0x prefix and an even number of hex digits.
HexutilDecode(cs) ==
    IF ~HasPrefix(cs, Chars("0x")) THEN [err |-> TRUE, bytes |-> <<>>]
    ELSE HexDecodeString(SubSeq(cs, 3, Len(cs)))

\* TypedData.EncodePrimitiveValue: the 32-byte word of a field, or an error
\* when the value does not have a Go type the field's type accepts.  present
\* is false when the message has no such key (the value is nil).
EncodePrimitiveValue(encType, present, val) ==
    LET bad == [err |-> TRUE, bytes |-> <<>>]
        ok(b) == [err |-> FALSE, bytes |-> b]
    IN
    IF ~present THEN bad
    ELSE IF encType = "string"
        THEN IF val.t = "string" THEN ok(Keccak256(StrBytes(val.v))) ELSE bad
    ELSE IF encType = "bool"
        THEN IF val.t = "bool"
             THEN ok([i \in 1..32 |-> IF i = 32 /\ val.v THEN 1 ELSE 0]) ELSE bad
    ELSE IF encType = "address"
        THEN IF val.t = "string" /\ Len(TrimPrefix(val.v, Chars("0x"))) = 40
                /\ ~HexDecodeString(TrimPrefix(val.v, Chars("0x"))).err
             THEN ok([i \in 1..12 |-> 0]
                     \o HexDecodeString(TrimPrefix(val.v, Chars("0x"))).bytes)
             ELSE bad
    ELSE IF encType = "bytes32"
        THEN IF val.t = "string" /\ ~HexutilDecode(val.v).err
                /\ Len(HexutilDecode(val.v).bytes) = 32
             THEN ok(HexutilDecode(val.v).bytes) ELSE bad
    ELSE \* uint64, uint256: parseInteger takes a big integer (a string or a
         \* float64 too, which no value here is), and no Go uint64 or int64
        IF val.t = "*big.Int" /\ val.v >= 0 THEN ok(BigEndian(val.v, 32)) ELSE bad

\* TypedData.EncodeData and HashStruct: an error when the message holds more
\* entries than the type declares fields, or when a field cannot be encoded;
\* else the hash of the type hash followed by the word of every field in the
\* order of the declaration.
HashStruct(types, primaryType, data) ==
    LET fields == types[primaryType]
        word(i) == EncodePrimitiveValue(fields[i].Type,
                                        fields[i].Name \in DOMAIN data,
                                        IF fields[i].Name \in DOMAIN data
                                        THEN data[fields[i].Name] ELSE None)
    IN
    IF Len(fields) < Cardinality(DOMAIN data) THEN [err |-> TRUE, hash |-> <<>>]
    ELSE IF \E i \in 1..Len(fields) : word(i).err THEN [err |-> TRUE, hash |-> <<>>]
    ELSE [err |-> FALSE,
          hash |-> Keccak256(Keccak256(StrBytes(EncodeType(types, primaryType)))
                             \o Flatten([i \in 1..Len(fields) |-> word(i).bytes]))]

\* crypto.Sign: an error for a key that is no scalar of the curve (zero is
\* the one modelled), else 65 bytes R || S || V with V the recovery id, 0 or
\* 1.  The curve arithmetic is replaced by digests of the key and the message
\* hash.
EcdsaSign(digest, privateKey) ==
    LET r == Keccak256(privateKey \o digest)
        s == Keccak256(digest \o privateKey \o r)
    IN  IF \A i \in 1..Len(privateKey) : privateKey[i] = 0
        THEN [err |-> TRUE, bytes |-> <<>>]
        ELSE [err |-> FALSE, bytes |-> r \o s \o <<(r[32] + s[32]) % 2>>]

NoSignature == [R |-> <<>>, S |-> <<>>, V |-> 0]

\* A variant of the Signature SignInner builds, with the bare recovery id.
SignatureOfRawV(signature) ==
    [R |-> HexutilEncode(SubSeq(signature, 1, 32)),
     S |-> HexutilEncode(SubSeq(signature, 33, 64)),
     V |-> signature[65]]

\* The Signature SignInner builds from the 65 bytes of crypto.Sign.
SignatureOf(signature) ==
    [R |-> HexutilEncode(SubSeq(signature, 1, 32)),
     S |-> HexutilEncode(SubSeq(signature, 33, 64)),
     V |-> (signature[65] + 27) % 256]

\* The end of SignInner: the error of crypto.Sign, or the Signature.
SignatureResult(hash, signature) ==
    IF signature.err THEN [err |-> TRUE, sig |-> NoSignature, digest |-> <<>>]
    ELSE [err |-> FALSE, sig |-> SignatureOf(signature.bytes), digest |-> hash]

\* SignInner from the hash of rawData on.
SignHash(privateKey, hash) == SignatureResult(hash, EcdsaSign(hash, privateKey))

\* SignInner from the two struct hashes on.
SignHashes(privateKey, domainSeparator, typedDataHash) ==
    IF domainSeparator.err \/ typedDataHash.err
    THEN [err |-> TRUE, sig |-> NoSignature, digest |-> <<>>]
    ELSE SignHash(privateKey,
                  Keccak256(<<25, 1>> \o domainSeparator.hash \o typedDataHash.hash))

\* SignInner.  digest is not returned by the code: it records what was signed.
SignInner(privateKey, data) ==
    SignHashes(privateKey,
               HashStruct(data.Types, "EIP712Domain", DomainMap(data.Domain)),
               HashStruct(data.Types, data.PrimaryType, data.Message))

(***************************************************************************)
(* L1 actions                                                              *)
(***************************************************************************)

\* ConstructPhantomAgent
ConstructPhantomAgent(hash, isMainnet) ==
    [Source |-> IF isMainnet THEN "a" ELSE "b",
     ConnectionID |-> HexutilEncode(hash)]

\* A variant under the domain of the user-signed actions.
L1PayloadUserDomain(phantomAgent) ==
    [Types |-> [EIP712Domain |-> EIP712DomainType,
                Agent |-> << Field("source", "string"),
                             Field("connectionId", "bytes32") >>],
     PrimaryType |-> "Agent",
     Domain |-> [Name |-> Chars("HyperliquidSignTransaction"),
                 Version |-> Chars("1"),
                 ChainId |-> 421614,
                 VerifyingContract |-> ZeroAddress],
     Message |-> [source |-> Str(Chars(phantomAgent.Source)),
                  connectionId |-> Str(phantomAgent.ConnectionID)]]

\* L1Payload
L1Payload(phantomAgent) ==
    [Types |-> [EIP712Domain |-> EIP712DomainType,
                Agent |-> << Field("source", "string"),
                             Field("connectionId", "bytes32") >>],
     PrimaryType |-> "Agent",
     Domain |-> [Name |-> Chars("Exchange"),
                 Version |-> Chars("1"),
                 ChainId |-> 1337,
                 VerifyingContract |-> ZeroAddress],
     Message |-> [source |-> Str(Chars(phantomAgent.Source)),
                  connectionId |-> Str(phantomAgent.ConnectionID)]]

NoTypedData == [Types |-> <<>>, PrimaryType |-> "", Domain |-> <<>>, Message |-> <<>>]

\* What the model keeps of a call of SignL1Action: the error and the
\* signature the code returns, and the hash, the typed data and the digest
\* it went through.
SignedAgent(hashed, data, signed) ==
    [err |-> signed.err, sig |-> signed.sig, hashed |-> hashed,
     data |-> data, digest |-> signed.digest]

\* SignL1Action from the typed data on.
SignAgentData(privateKey, hashed, data) ==
    SignedAgent(hashed, data, SignInner(privateKey, data))

\* SignL1Action after the hash: the phantom agent, its typed data and the
\* signature.
SignPhantomAgent(privateKey, hashed, isMainnet) ==
    IF hashed.err
    THEN [err |-> TRUE, sig |-> NoSignature, hashed |-> hashed,
          data |-> NoTypedData, digest |-> <<>>]
    ELSE SignAgentData(privateKey, hashed,
                       L1Payload(ConstructPhantomAgent(hashed.hash, isMainnet)))

\* SignL1Action
SignL1Action(privateKey, action, activePool, nonce, expiresAfter, isMainnet, iter) ==
    SignPhantomAgent(privateKey,
                     ActionHash(action, activePool, nonce, expiresAfter, iter),
                     isMainnet)

(***************************************************************************)
(* The L1 pipeline: one call of ActionHash, a second call with the same    *)
(* arguments, or one call of SignL1Action, on arguments drawn from the     *)
(* sets below.                                                             *)
(***************************************************************************)

MaxOrders == 1

\* The wire order of TestOrderWiresToOrderAction, and a trigger order with a
\* client order id.
WireSamples ==
    { [A |-> 0, B |-> TRUE, P |-> <<"5","0","0","0","0">>, S |-> <<"1",".","5">>,
       R |-> FALSE,
       T |-> [Limit |-> Some([TIF |-> "Gtc"]), Trigger |-> None],
       C |-> None],
      [A |-> 10000, B |-> FALSE, P |-> <<"0",".","5">>, S |-> <<"2">>,
       R |-> TRUE,
       T |-> [Limit |-> None,
              Trigger |-> Some([TriggerPx |-> <<"1","0","0",".","5">>,
                                IsMarket |-> TRUE, TPSL |-> "tp"])],
       C |-> Some(Chars("0x") \o [i \in 1..32 |-> "a"])] }

OrderLists == UNION {[1..n -> WireSamples] : n \in 0..MaxOrders}

\* The address of the tests; then a hex string of two bytes, one with an odd
\* number of digits, one with a character that is no hex digit, and an
\* address without the 0x prefix.
TestAddress == Chars("0x") \o [i \in 1..40 |-> Printable[17 + (i % 10)]]

Vaults ==
    { None, Some(TestAddress), Some(<<"0","x","1","2","3","4">>),
      Some(<<"0","x","1","2","3">>), Some(<<"0","x","z","z">>),
      Some(SubSeq(TestAddress, 3, 42)) }

\* 12345 is the nonce of TestActionHash; 16909060 is 0x01020304.
Nonces == {12345, 16909060}

\* 66051 is 0x010203.
Expiries == {None, Some(66051)}

PrivateKeys == { <<7, 1>> }

\* "build" tells how the action was made: by OrderWiresToOrderAction, or as
\* the map literal of TestActionHash.
L1Inputs ==
    [build : {"OrderWiresToOrderAction"}, orderWires : OrderLists, builder : {None},
     vaultAddress : Vaults, nonce : Nonces, expiresAfter : Expiries]
    \cup
    [build : {"OrderWiresToOrderAction"}, orderWires : {<<>>},
     builder : {Some("test-builder")},
     vaultAddress : Vaults, nonce : Nonces, expiresAfter : Expiries]
    \cup
    [build : {"literal"}, orderWires : {<<>>}, builder : {None},
     vaultAddress : Vaults, nonce : Nonces, expiresAfter : Expiries]

ActionOf(i) ==
    IF i.build = "literal" THEN [type |-> "order", orders |-> <<>>]
    ELSE OrderWiresToOrderAction(i.orderWires, i.builder)

NoCall == [op |-> "none"]

Init ==
    /\ pc = "ready"
    /\ in \in L1Inputs
    /\ out = NoCall
    /\ again = NoCall

CallActionHash ==
    /\ pc = "ready"
    /\ \E iter \in IterationOrders(ActionOf(in)) :
          out' = [op |-> "ActionHash",
                  res |-> ActionHash(ActionOf(in), in.vaultAddress, in.nonce,
                                     in.expiresAfter, iter)]
    /\ pc' = "hashed"
    /\ UNCHANGED <<in, again>>

CallActionHashAgain ==
    /\ pc = "hashed"
    /\ \E iter \in IterationOrders(ActionOf(in)) :
          again' = [op |-> "ActionHash",
                    res |-> ActionHash(ActionOf(in), in.vaultAddress, in.nonce,
                                       in.expiresAfter, iter)]
    /\ pc' = "rehashed"
    /\ UNCHANGED <<in, out>>

CallSignL1Action ==
    /\ pc = "ready"
    /\ \E privateKey \in PrivateKeys, isMainnet \in BOOLEAN,
          iter \in IterationOrders(ActionOf(in)) :
          out' = [op |-> "SignL1Action", privateKey |-> privateKey,
                  isMainnet |-> isMainnet,
                  res |-> SignL1Action(privateKey, ActionOf(in), in.vaultAddress,
                                       in.nonce, in.expiresAfter, isMainnet, iter)]
    /\ pc' = "signed"
    /\ UNCHANGED <<in, again>>

Next == CallActionHash \/ CallActionHashAgain \/ CallSignL1Action

Spec == Init /\ [][Next]_vars


(***************************************************************************)
(* OrderWiresToOrderAction on its own: one call on a list of wire orders   *)
(* and a builder.                                                          *)
(***************************************************************************)

MaxWires == 2

\* The wire orders of WireSamples, as buys and sells of a perp and a spot
\* asset.
ActionWires ==
    { [w EXCEPT !.A = a, !.B = b] : w \in WireSamples, a \in {0, 10000}, b \in BOOLEAN }

\* No builder, the builder of TestOrderWiresToOrderAction, and a pointer to
\* the empty string.
Builders == { None, Some("test-builder"), Some("") }

ActionInit ==
    /\ pc = "action-ready"
    /\ in \in [orderWires : UNION {[1..n -> ActionWires] : n \in 0..MaxWires},
               builder : Builders]
    /\ out = NoCall
    /\ again = NoCall

CallOrderWiresToOrderAction ==
    /\ pc = "action-ready"
    /\ out' = [op |-> "OrderWiresToOrderAction",
               res |-> OrderWiresToOrderAction(in.orderWires, in.builder)]
    /\ pc' = "action-built"
    /\ UNCHANGED <<in, again>>

ActionNext == CallOrderWiresToOrderAction

ActionSpec == ActionInit /\ [][ActionNext]_vars

(***************************************************************************)
(* ConstructPhantomAgent on its own, on hashes of any length               *)
(***************************************************************************)

MaxHashLen == 4

ByteSamples == {1, 2, 3, 4, 171}

HashInputs == UNION {[1..n -> ByteSamples] : n \in 0..MaxHashLen}

AgentInit ==
    /\ pc = "agent-ready"
    /\ in \in [hash : HashInputs, isMainnet : BOOLEAN]
    /\ out = NoCall
    /\ again = NoCall

CallConstructPhantomAgent ==
    /\ pc = "agent-ready"
    /\ out' = [op |-> "ConstructPhantomAgent",
               res |-> ConstructPhantomAgent(in.hash, in.isMainnet)]
    /\ pc' = "agent-done"
    /\ UNCHANGED <<in, again>>

AgentNext == CallConstructPhantomAgent

AgentSpec == AgentInit /\ [][AgentNext]_vars

(***************************************************************************)
(* Numbers on the wire.  A finite float64 is a decimal number              *)
(*     (-1)^neg * (ip + f8 / 10^8 + r / 10^13),                            *)
(* 0 <= f8 < 10^8 and 0 <= r < 10^5: eight fractional digits and five      *)
(* more below them.  Arithmetic on these decimals is exact.  The other     *)
(* float64 values are the two infinities and NaN.                          *)
(***************************************************************************)

Dec(neg, ip, f8, r) == [class |-> "finite", neg |-> neg, ip |-> ip, f8 |-> f8, r |-> r]

\* math.Inf(1), math.Inf(-1)
Inf(neg) == [class |-> "inf", neg |-> neg, ip |-> 0, f8 |-> 0, r |-> 0]

\* math.NaN()
NaN == [class |-> "nan", neg |-> FALSE, ip |-> 0, f8 |-> 0, r |-> 0]

\* n as exactly width decimal digits, zero-padded on the left.
ZeroPad(n, width) ==
    [i \in 1..(width - Len(IntDigits(n))) |-> "0"] \o IntDigits(n)

\* fmt.Sprintf("%.8f", x): x rounded to eight fractional digits, to the
\* nearest and to even on a tie, with the sign of x; NaN, +Inf and -Inf for
\* the values that are no number.
Sprintf8f(x) ==
    LET up == x.r > 50000 \/ (x.r = 50000 /\ x.f8 % 2 = 1)
        f == IF up THEN x.f8 + 1 ELSE x.f8
        ip == IF f = 100000000 THEN x.ip + 1 ELSE x.ip
    IN  IF x.class = "nan" THEN <<"N", "a", "N">>
        ELSE IF x.class = "inf"
        THEN (IF x.neg THEN <<"-">> ELSE <<"+">>) \o <<"I", "n", "f">>
        ELSE (IF x.neg THEN <<"-">> ELSE <<>>)
             \o IntDigits(ip) \o <<".">> \o ZeroPad(f % 100000000, 8)

\* |parsedRounded - x| of a finite x, in units of 10^-13.
RoundingDelta(x) ==
    IF x.r > 50000 \/ (x.r = 50000 /\ x.f8 % 2 = 1) THEN 100000 - x.r ELSE x.r

\* strings.TrimRight(cs, c) for a one-character cutset.
RECURSIVE TrimRight(_, _)
TrimRight(cs, c) ==
    IF cs # <<>> /\ cs[Len(cs)] = c THEN TrimRight(SubSeq(cs, 1, Len(cs) - 1), c) ELSE cs

\* A variant without the check of the rounding.
FloatToWireUnchecked(x) ==
    LET rounded == Sprintf8f(x)
        rounded2 == IF rounded = Chars("-0.00000000") THEN Chars("0.00000000") ELSE rounded
        trimmed == TrimRight(TrimRight(rounded2, "0"), ".")
    IN  [err |-> FALSE, s |-> IF trimmed = <<>> THEN <<"0">> ELSE trimmed]

\* FloatToWire.  strconv.ParseFloat reads "NaN", "+Inf" and "-Inf" back as
\* NaN and the infinities; parsedRounded - x is then NaN, and the comparison
\* of a NaN with 1e-12 is false.
FloatToWire(x) ==
    LET rounded == Sprintf8f(x)
        rounded2 == IF rounded = Chars("-0.00000000") THEN Chars("0.00000000") ELSE rounded
        trimmed == TrimRight(TrimRight(rounded2, "0"), ".")
    IN  IF x.class = "finite" /\ RoundingDelta(x) >= 10 THEN [err |-> TRUE, s |-> <<>>]
        ELSE [err |-> FALSE, s |-> IF trimmed = <<>> THEN <<"0">> ELSE trimmed]

\* a >= b for numbers hi * 10^5 + lo given as <<hi, lo>>, lo below 10^5.
PairGE(a, b) == a[1] > b[1] \/ (a[1] = b[1] /\ a[2] >= b[2])

\* FloatToInt for a power of 0 to 8.  x * 10^power is whole + frac, with
\* frac = <<hi, lo>> counting (hi * 10^5 + lo) units of 1 / (scale * 10^5);
\* math.Round rounds a half away from zero.  For NaN and the infinities
\* rounded - withDecimals is NaN, the comparison with 1e-3 is false, and the
\* conversion to int64 gives conv, the value the build produces for a float
\* that no int64 holds.
FloatToInt(x, power, conv) ==
    LET scale == 10 ^ (8 - power)
        whole == x.ip * (10 ^ power) + (x.f8 \div scale)
        frac == << x.f8 % scale, x.r >>
        half == << scale \div 2, (scale % 2) * 50000 >>
        up == PairGE(frac, half)
        delta == IF ~up THEN frac
                 ELSE IF frac[2] = 0 THEN << scale - frac[1], 0 >>
                 ELSE << scale - frac[1] - 1, 100000 - frac[2] >>
        rounded == IF up THEN whole + 1 ELSE whole
    IN  IF x.class # "finite" THEN [err |-> FALSE, n |-> conv]
        ELSE IF PairGE(delta, << scale \div 1000, (scale % 1000) * 100 >>)
        THEN [err |-> TRUE, n |-> 0]
        ELSE [err |-> FALSE, n |-> IF x.neg THEN 0 - rounded ELSE rounded]

(***************************************************************************)
(* Orders on the wire                                                      *)
(***************************************************************************)

EmptyOrderTypeWire == [Limit |-> None, Trigger |-> None]

\* A variant that lets an order type with no variant through as empty.
OrderTypeToWireLenient(orderType) ==
    IF orderType.Limit # None
    THEN [err |-> FALSE, wire |-> [Limit |-> orderType.Limit, Trigger |-> None]]
    ELSE IF orderType.Trigger # None
    THEN LET triggerPxWire == FloatToWire(orderType.Trigger[1].TriggerPx) IN
         IF triggerPxWire.err THEN [err |-> TRUE, wire |-> EmptyOrderTypeWire]
         ELSE [err |-> FALSE,
               wire |-> [Limit |-> None,
                         Trigger |-> Some([IsMarket |-> orderType.Trigger[1].IsMarket,
                                           TriggerPx |-> triggerPxWire.s,
                                           TPSL |-> orderType.Trigger[1].TPSL])]]
    ELSE [err |-> FALSE, wire |-> EmptyOrderTypeWire]

\* OrderTypeToWire
OrderTypeToWire(orderType) ==
    IF orderType.Limit # None
    THEN [err |-> FALSE, wire |-> [Limit |-> orderType.Limit, Trigger |-> None]]
    ELSE IF orderType.Trigger # None
    THEN LET triggerPxWire == FloatToWire(orderType.Trigger[1].TriggerPx) IN
         IF triggerPxWire.err THEN [err |-> TRUE, wire |-> EmptyOrderTypeWire]
         ELSE [err |-> FALSE,
               wire |-> [Limit |-> None,
                         Trigger |-> Some([IsMarket |-> orderType.Trigger[1].IsMarket,
                                           TriggerPx |-> triggerPxWire.s,
                                           TPSL |-> orderType.Trigger[1].TPSL])]]
    ELSE [err |-> TRUE, wire |-> EmptyOrderTypeWire]

\* OrderRequestToOrderWire: wire is the returned pointer, nil on an error.
OrderRequestToOrderWire(order, asset) ==
    LET limitPxWire == FloatToWire(order.LimitPx)
        szWire == FloatToWire(order.Sz)
        orderTypeWire == OrderTypeToWire(order.OrderType)
    IN  IF limitPxWire.err \/ szWire.err \/ orderTypeWire.err
        THEN [err |-> TRUE, wire |-> None]
        ELSE [err |-> FALSE,
              wire |-> Some([A |-> asset, B |-> order.IsBuy, P |-> limitPxWire.s,
                             S |-> szWire.s, R |-> order.ReduceOnly,
                             T |-> orderTypeWire.wire, C |-> order.Cloid])]

\* Decimals around every threshold of the two conversions, the values of
\* TestFloatToWire and TestFloatToInt, and the values that are no number.
Floats ==
    { Dec(neg, ip, f8, r) :
        neg \in BOOLEAN, ip \in {0, 1, 100},
        f8 \in {0, 1, 50000000, 12345678, 12345600, 99999999},
        r \in {0, 1, 9, 10, 100, 50000, 99900, 99990, 99991, 99999} }
    \cup { Dec(FALSE, 50000, 0, 0), Dec(FALSE, 1000000, 0, 0),
           Dec(FALSE, 123, 45678900, 0), Dec(FALSE, 0, 12345678, 90000) }
    \cup { Inf(FALSE), Inf(TRUE), NaN }

TIFs == {"Alo", "Ioc", "Gtc"}

TPSLs == {"tp", "sl"}

OrderTypes ==
    [Limit : {None} \cup {Some([TIF |-> t]) : t \in TIFs},
     Trigger : {None} \cup
               {Some(t) : t \in [TriggerPx : {Dec(FALSE, 100, 50000000, 0),
                                              Dec(FALSE, 0, 12345678, 90000)},
                                 IsMarket : BOOLEAN, TPSL : TPSLs]}]

OrderRequests ==
    [Coin : {"BTC"}, IsBuy : BOOLEAN,
     Sz : {Dec(FALSE, 1, 50000000, 0), Dec(FALSE, 0, 12345678, 90000)},
     LimitPx : {Dec(FALSE, 50000, 0, 0), Dec(FALSE, 1, 50000000, 1), Inf(FALSE)},
     OrderType : OrderTypes, ReduceOnly : BOOLEAN,
     Cloid : {None, Some(Chars("test-cloid")),
              Some(Chars("0x") \o [i \in 1..32 |-> Printable[17 + (i % 10)]])}]

Assets == {0, 10000}

WireInit ==
    /\ pc = "wire-ready"
    /\ in \in [order : OrderRequests, asset : Assets]
    /\ out = NoCall
    /\ again = NoCall

CallOrderTypeToWire ==
    /\ pc = "wire-ready"
    /\ out' = [op |-> "OrderTypeToWire", res |-> OrderTypeToWire(in.order.OrderType)]
    /\ pc' = "wire-typed"
    /\ UNCHANGED <<in, again>>

CallOrderRequestToOrderWire ==
    /\ pc = "wire-ready"
    /\ out' = [op |-> "OrderRequestToOrderWire",
               res |-> OrderRequestToOrderWire(in.order, in.asset)]
    /\ pc' = "wire-ordered"
    /\ UNCHANGED <<in, again>>

WireNext == CallOrderTypeToWire \/ CallOrderRequestToOrderWire

WireSpec == WireInit /\ [][WireNext]_vars

(***************************************************************************)
(* The numeric conversions on their own: one call of FloatToWire or of     *)
(* FloatToInt on a float.                                                  *)
(***************************************************************************)

\* The largest magnitude the conversions are run on.
MaxWhole == 2000000000

\* The power of TestFloatToInt's first case, of FloatToUSDInt and of
\* FloatToIntForHashing.
Powers == {1, 6, 8}

\* What int64(f) gives for a float that no int64 holds, which the language
\* leaves to the build: the smallest int64, zero or the largest int64, for
\* which the ends of the model's range stand.
ConversionOutcomes == {0 - MaxWhole, 0, MaxWhole}

NumInit ==
    /\ pc = "num-ready"
    /\ in \in [x : Floats]
    /\ out = NoCall
    /\ again = NoCall

CallFloatToWire ==
    /\ pc = "num-ready"
    /\ out' = [op |-> "FloatToWire", res |-> FloatToWire(in.x)]
    /\ pc' = "num-wired"
    /\ UNCHANGED <<in, again>>

CallFloatToInt ==
    /\ pc = "num-ready"
    /\ \E power \in Powers, conv \in ConversionOutcomes :
          /\ in.x.ip < MaxWhole \div (10 ^ power)
          /\ out' = [op |-> "FloatToInt", power |-> power,
                     res |-> FloatToInt(in.x, power, conv)]
    /\ pc' = "num-fixed"
    /\ UNCHANGED <<in, again>>

NumNext == CallFloatToWire \/ CallFloatToInt

NumSpec == NumInit /\ [][NumNext]_vars

(***************************************************************************)
(* User-signed actions                                                     *)
(***************************************************************************)

\* The value of a digit in bases up to 36; 36 for any other character.
DigitValue(c) ==
    LET code == CharCodes[c] IN
    IF code >= 48 /\ code <= 57 THEN code - 48
    ELSE IF code >= 97 /\ code <= 122 THEN code - 97 + 10
    ELSE IF code >= 65 /\ code <= 90 THEN code - 65 + 10
    ELSE 36

RECURSIVE ParseDigits(_, _, _, _)
ParseDigits(cs, i, base, acc) ==
    IF i > Len(cs) THEN [err |-> FALSE, n |-> acc]
    ELSE IF DigitValue(cs[i]) >= base THEN [err |-> TRUE, n |-> 0]
    ELSE ParseDigits(cs, i + 1, base, acc * base + DigitValue(cs[i]))

\* strconv.ParseInt(s, 0, 64) on strings without underscores: an optional
\* sign, then the base from the prefix (0x 16, 0b 2, 0o 8, a plain leading
\* 0 8, otherwise 10), then digits of that base.
ParseInt(cs) ==
    LET unsigned == IF cs # <<>> /\ cs[1] \in {"+", "-"} THEN Tail(cs) ELSE cs
        prefixed == Len(unsigned) >= 3 /\ unsigned[1] = "0"
                    /\ unsigned[2] \in {"x", "X", "b", "B", "o", "O"}
        base == IF unsigned = <<>> \/ unsigned[1] # "0" THEN 10
                ELSE IF ~prefixed THEN 8
                ELSE IF unsigned[2] \in {"x", "X"} THEN 16
                ELSE IF unsigned[2] \in {"b", "B"} THEN 2
                ELSE 8
        digits == IF unsigned = <<>> \/ unsigned[1] # "0" THEN unsigned
                  ELSE IF prefixed THEN SubSeq(unsigned, 3, Len(unsigned))
                  ELSE Tail(unsigned)
        parsed == ParseDigits(digits, 1, base, 0)
    IN  IF unsigned = <<>> \/ parsed.err THEN [err |-> TRUE, n |-> 0]
        ELSE [err |-> FALSE, n |-> IF cs[1] = "-" THEN 0 - parsed.n ELSE parsed.n]

\* The sign types of the wrappers of SignUserSignedAction, by wrapper.
USDSendSignTypes ==
    << Field("hyperliquidChain", "string"), Field("destination", "string"),
       Field("amount", "string"), Field("time", "uint64") >>

SpotTransferSignTypes ==
    << Field("hyperliquidChain", "string"), Field("destination", "string"),
       Field("token", "string"), Field("amount", "string"), Field("time", "uint64") >>

WithdrawSignTypes ==
    << Field("hyperliquidChain", "string"), Field("destination", "string"),
       Field("amount", "string"), Field("time", "uint64") >>

USDClassTransferSignTypes ==
    << Field("hyperliquidChain", "string"), Field("amount", "string"),
       Field("toPerp", "bool"), Field("nonce", "uint64") >>

SendAssetSignTypes ==
    << Field("hyperliquidChain", "string"), Field("destination", "string"),
       Field("sourceDex", "string"), Field("destinationDex", "string"),
       Field("token", "string"), Field("amount", "string"),
       Field("fromSubAccount", "string"), Field("nonce", "uint64") >>

TokenDelegateTypes ==
    << Field("hyperliquidChain", "string"), Field("validator", "address"),
       Field("wei", "uint64"), Field("isUndelegate", "bool"), Field("nonce", "uint64") >>

ConvertToMultiSigUserSignTypes ==
    << Field("hyperliquidChain", "string"), Field("signers", "string"),
       Field("nonce", "uint64") >>

MultiSigEnvelopeSignTypes ==
    << Field("hyperliquidChain", "string"), Field("multiSigActionHash", "bytes32"),
       Field("nonce", "uint64") >>

AgentSignTypes ==
    << Field("hyperliquidChain", "string"), Field("agentAddress", "address"),
       Field("agentName", "string"), Field("nonce", "uint64") >>

BuilderFeeSignTypes ==
    << Field("hyperliquidChain", "string"), Field("maxFeeRate", "string"),
       Field("builder", "address"), Field("nonce", "uint64") >>

Wrappers ==
    { "SignUSDTransferAction", "SignSpotTransferAction", "SignWithdrawFromBridgeAction",
      "SignUSDClassTransferAction", "SignSendAssetAction",
      "SignConvertToMultiSigUserAction", "SignAgent", "SignApproveBuilderFee",
      "SignTokenDelegateAction", "MultiSigEnvelopeSignTypes" }

\* The payload types each wrapper passes ("MultiSigEnvelopeSignTypes" has no
\* wrapper: a caller passes the table to SignUserSignedAction itself).
PayloadTypesOf(wrapper) ==
    CASE wrapper = "SignUSDTransferAction" -> USDSendSignTypes
      [] wrapper = "SignSpotTransferAction" -> SpotTransferSignTypes
      [] wrapper = "SignWithdrawFromBridgeAction" -> WithdrawSignTypes
      [] wrapper = "SignUSDClassTransferAction" -> USDClassTransferSignTypes
      [] wrapper = "SignSendAssetAction" -> SendAssetSignTypes
      [] wrapper = "SignConvertToMultiSigUserAction" -> ConvertToMultiSigUserSignTypes
      [] wrapper = "SignAgent" -> AgentSignTypes
      [] wrapper = "SignApproveBuilderFee" -> BuilderFeeSignTypes
      [] wrapper = "SignTokenDelegateAction" -> TokenDelegateTypes
      [] wrapper = "MultiSigEnvelopeSignTypes" -> MultiSigEnvelopeSignTypes

PrimaryTypeOf(wrapper) ==
    CASE wrapper = "SignUSDTransferAction" -> "HyperliquidTransaction:UsdSend"
      [] wrapper = "SignSpotTransferAction" -> "HyperliquidTransaction:SpotSend"
      [] wrapper = "SignWithdrawFromBridgeAction" -> "HyperliquidTransaction:Withdraw"
      [] wrapper = "SignUSDClassTransferAction" -> "HyperliquidTransaction:UsdClassTransfer"
      [] wrapper = "SignSendAssetAction" -> "HyperliquidTransaction:SendAsset"
      [] wrapper = "SignConvertToMultiSigUserAction" ->
             "HyperliquidTransaction:ConvertToMultiSigUser"
      [] wrapper = "SignAgent" -> "HyperliquidTransaction:ApproveAgent"
      [] wrapper = "SignApproveBuilderFee" -> "HyperliquidTransaction:ApproveBuilderFee"
      [] wrapper = "SignTokenDelegateAction" -> "HyperliquidTransaction:TokenDelegate"
      [] wrapper = "MultiSigEnvelopeSignTypes" -> "HyperliquidTransaction:MultiSigEnvelope"

\* A variant that drops the error of the parse and goes on with chain id 0.
UserSignedPayloadUnchecked(primaryType, payloadTypes, action) ==
    LET ok == "signatureChainId" \in DOMAIN action
              /\ action["signatureChainId"].t = "string"
        chainID == ParseInt(action["signatureChainId"].v)
        types == ("EIP712Domain" :> EIP712DomainType) @@ (primaryType :> payloadTypes)
        message == [k \in DOMAIN action |-> action[k]]
    IN  IF ~ok THEN [err |-> TRUE, data |-> NoTypedData]
        ELSE [err |-> FALSE,
              data |-> [Types |-> types,
                        PrimaryType |-> primaryType,
                        Domain |-> [Name |-> Chars("HyperliquidSignTransaction"),
                                    Version |-> Chars("1"),
                                    ChainId |-> chainID.n,
                                    VerifyingContract |-> ZeroAddress],
                        Message |-> message]]

\* UserSignedPayload
UserSignedPayload(primaryType, payloadTypes, action) ==
    LET ok == "signatureChainId" \in DOMAIN action
              /\ action["signatureChainId"].t = "string"
        chainID == ParseInt(action["signatureChainId"].v)
        types == ("EIP712Domain" :> EIP712DomainType) @@ (primaryType :> payloadTypes)
        message == [k \in DOMAIN action |-> action[k]]
    IN  IF ~ok THEN [err |-> TRUE, data |-> NoTypedData]
        ELSE IF chainID.err THEN [err |-> TRUE, data |-> NoTypedData]
        ELSE [err |-> FALSE,
              data |-> [Types |-> types,
                        PrimaryType |-> primaryType,
                        Domain |-> [Name |-> Chars("HyperliquidSignTransaction"),
                                    Version |-> Chars("1"),
                                    ChainId |-> chainID.n,
                                    VerifyingContract |-> ZeroAddress],
                        Message |-> message]]

\* What the model keeps of a call of SignUserSignedAction: the error and the
\* signature the code returns, the caller's map as the call leaves it, and
\* the typed data it built.
SignedUserAction(action, data, signed) ==
    [err |-> signed.err, sig |-> signed.sig, action |-> action, data |-> data]

\* SignUserSignedAction from the payload on.
SignUserPayload(privateKey, action, payload) ==
    IF payload.err
    THEN [err |-> TRUE, sig |-> NoSignature, action |-> action, data |-> NoTypedData]
    ELSE SignedUserAction(action, payload.data, SignInner(privateKey, payload.data))

\* A variant of SignUserSignedAction that keeps what the caller holds under
\* the two keys.
SignUserSignedActionKeepOwn(privateKey, action, payloadTypes, primaryType, isMainnet) ==
    SignUserPayload(privateKey,
        [k \in DOMAIN action \cup {"signatureChainId", "hyperliquidChain"} |->
            IF k \in DOMAIN action THEN action[k]
            ELSE IF k = "signatureChainId" THEN Str(Chars("0x66eee"))
            ELSE Str(Chars(IF isMainnet THEN "Mainnet" ELSE "Testnet"))],
        UserSignedPayload(primaryType, payloadTypes,
            [k \in DOMAIN action \cup {"signatureChainId", "hyperliquidChain"} |->
                IF k \in DOMAIN action THEN action[k]
                ELSE IF k = "signatureChainId" THEN Str(Chars("0x66eee"))
                ELSE Str(Chars(IF isMainnet THEN "Mainnet" ELSE "Testnet"))]))

\* SignUserSignedAction after the two assignments to the caller's map.
SignChainedAction(privateKey, action, payloadTypes, primaryType) ==
    SignUserPayload(privateKey, action,
                    UserSignedPayload(primaryType, payloadTypes, action))

\* SignUserSignedAction
SignUserSignedAction(privateKey, action, payloadTypes, primaryType, isMainnet) ==
    SignChainedAction(privateKey,
        [k \in DOMAIN action \cup {"signatureChainId", "hyperliquidChain"} |->
            IF k = "signatureChainId" THEN Str(Chars("0x66eee"))
            ELSE IF k = "hyperliquidChain"
            THEN Str(Chars(IF isMainnet THEN "Mainnet" ELSE "Testnet"))
            ELSE action[k]],
        payloadTypes, primaryType)

\* A value a caller puts under a field of the given type; ints is the Go type
\* of its integers (TestSigningFlow passes a uint64, Exchange an int64).
SampleValue(type, ints) ==
    CASE type = "string" -> Str(Chars("1000000"))
      [] type = "bool" -> Bool(TRUE)
      [] type = "address" -> Str(TestAddress)
      [] type = "bytes32" -> Str(Chars("0x") \o [i \in 1..64 |-> "a"])
      [] type = "uint64" -> [t |-> ints, v |-> 1700000000]

IntTypes == {"uint64", "int64", "*big.Int"}

\* The action of a wrapper with exactly its own fields: every declared field
\* but hyperliquidChain.
OwnAction(wrapper, ints) ==
    LET fields == PayloadTypesOf(wrapper)
        own == {i \in 1..Len(fields) : fields[i].Name # "hyperliquidChain"}
    IN  [k \in {fields[i].Name : i \in own} |->
            SampleValue(fields[CHOOSE i \in own : fields[i].Name = k].Type, ints)]

\* What the caller has under signatureChainId: nothing, the identifier the
\* code injects, a decimal, strings that are no number, and a number that is
\* no string.
ChainIdSamples ==
    { None, Some(Str(Chars("0x66eee"))), Some(Str(Chars("421614"))),
      Some(Str(<<"0","x","z","z">>)), Some(Str(<<>>)), Some(Str(Chars("66eee"))),
      Some(Int64(421614)) }

\* The type tag Exchange.UsdTransfer and Exchange.UsdClassTransfer put in the
\* action before signing it.
TypeTags(wrapper) ==
    IF wrapper = "SignUSDTransferAction" THEN {None, Some(Str(Chars("usdSend")))}
    ELSE IF wrapper = "SignUSDClassTransferAction"
    THEN {None, Some(Str(Chars("usdClassTransfer")))}
    ELSE {None}

WithKey(m, key, value) ==
    IF value = None THEN m
    ELSE [k \in DOMAIN m \cup {key} |-> IF k = key THEN value[1] ELSE m[k]]

\* The caller may also hold a network name of its own under hyperliquidChain.
UserInputs ==
    UNION { { [wrapper |-> w,
               action |-> WithKey(WithKey(WithKey(OwnAction(w, ints), "type", tag),
                                          "signatureChainId", chain),
                                  "hyperliquidChain", net),
               isMainnet |-> m] :
              ints \in IntTypes, tag \in TypeTags(w), chain \in ChainIdSamples,
              net \in {None, Some(Str(Chars("Mainnet")))}, m \in BOOLEAN } :
            w \in Wrappers }

UserInit ==
    /\ pc = "user-ready"
    /\ in \in UserInputs
    /\ out = NoCall
    /\ again = NoCall

CallUserSignedPayload ==
    /\ pc = "user-ready"
    /\ out' = [op |-> "UserSignedPayload",
               res |-> UserSignedPayload(PrimaryTypeOf(in.wrapper),
                                         PayloadTypesOf(in.wrapper), in.action)]
    /\ pc' = "user-payload"
    /\ UNCHANGED <<in, again>>

CallSignUserSignedAction ==
    /\ pc = "user-ready"
    /\ \E privateKey \in PrivateKeys :
          out' = [op |-> "SignUserSignedAction", privateKey |-> privateKey,
                  res |-> SignUserSignedAction(privateKey, in.action,
                                               PayloadTypesOf(in.wrapper),
                                               PrimaryTypeOf(in.wrapper), in.isMainnet)]
    /\ pc' = "user-signed"
    /\ UNCHANGED <<in, again>>

UserNext == CallUserSignedPayload \/ CallSignUserSignedAction

UserSpec == UserInit /\ [][UserNext]_vars

(***************************************************************************)
(* SignInner on its own: one call on a key and a typed data.               *)
(***************************************************************************)

MaxSeed == 7

\* The key of the tests, and the zero scalar, which crypto.Sign refuses.
SignKeys == PrivateKeys \cup { <<0, 0>> }

\* The typed data of L1 actions: over 32-byte hashes, and over the 4-byte
\* hash of TestConstructPhantomAgent.
L1TypedData ==
    { L1Payload(ConstructPhantomAgent(h, m)) :
        h \in {Keccak256(<<b>>) : b \in 0..MaxSeed} \cup { <<1, 2, 3, 4>> },
        m \in BOOLEAN }

\* The typed data of user-signed actions: the message SignUserSignedAction
\* builds (injected true), and a message of exactly the declared fields.
UserTypedData ==
    { [Types |-> ("EIP712Domain" :> EIP712DomainType)
                 @@ (PrimaryTypeOf(w) :> PayloadTypesOf(w)),
       PrimaryType |-> PrimaryTypeOf(w),
       Domain |-> [Name |-> Chars("HyperliquidSignTransaction"),
                   Version |-> Chars("1"),
                   ChainId |-> 421614,
                   VerifyingContract |-> ZeroAddress],
       Message |-> WithKey(WithKey(OwnAction(w, ints), "hyperliquidChain",
                                   Some(Str(Chars("Testnet")))),
                           "signatureChainId",
                           IF injected THEN Some(Str(Chars("0x66eee"))) ELSE None)] :
        w \in Wrappers, ints \in IntTypes, injected \in BOOLEAN }

SignInit ==
    /\ pc = "sign-ready"
    /\ in \in [privateKey : SignKeys, data : L1TypedData \cup UserTypedData]
    /\ out = NoCall
    /\ again = NoCall

CallSignInner ==
    /\ pc = "sign-ready"
    /\ out' = [op |-> "SignInner", res |-> SignInner(in.privateKey, in.data)]
    /\ pc' = "sign-done"
    /\ UNCHANGED <<in, again>>

SignNext == CallSignInner

SignSpec == SignInit /\ [][SignNext]_vars

(***************************************************************************)
(* Exchange.  An Exchange is its private key, its vault address, the base  *)
(* URL of its API and its expiry; the info client is the two tables that   *)
(* NameToAsset reads.  The transport is outside the program: what Post     *)
(* returns is any of its outcomes.                                         *)
(***************************************************************************)

\* The value of utils.MainnetAPIURL, told apart from every other URL.
MainnetAPIURL == "MainnetAPIURL"

\* Info.NameToAsset, on an Info whose nameToCoins and coinToAsset hold a
\* perp, a spot pair, and a name whose coin has no asset.
NameToAsset(name) ==
    LET nameToCoins == [BTC |-> "BTC", PURR |-> "PURR/USDC", OLD |-> "OLD"]
        coinToAsset == ("BTC" :> 0) @@ ("PURR/USDC" :> 10000)
    IN  IF name \in DOMAIN nameToCoins /\ nameToCoins[name] \in DOMAIN coinToAsset
        THEN [err |-> FALSE, asset |-> coinToAsset[nameToCoins[name]]]
        ELSE [err |-> TRUE, asset |-> 0]

\* fmt.Sprintf("%.6f", x), as Sprintf8f with six fractional digits.
Sprintf6f(x) ==
    LET f6 == x.f8 \div 100
        rest == x.f8 % 100
        up == rest > 50 \/ (rest = 50 /\ x.r > 0) \/ (rest = 50 /\ x.r = 0 /\ f6 % 2 = 1)
        f == IF up THEN f6 + 1 ELSE f6
        ip == IF f = 1000000 THEN x.ip + 1 ELSE x.ip
    IN  IF x.class = "nan" THEN <<"N", "a", "N">>
        ELSE IF x.class = "inf"
        THEN (IF x.neg THEN <<"-">> ELSE <<"+">>) \o <<"I", "n", "f">>
        ELSE (IF x.neg THEN <<"-">> ELSE <<>>)
             \o IntDigits(ip) \o <<".">> \o ZeroPad(f % 1000000, 6)

\* signature.R + signature.S + fmt.Sprintf("%02x", signature.V), the string
\* every method of Exchange passes to postAction.
SignatureString(sig) == sig.R \o sig.S \o HexEncodeToString(<<sig.V>>)

\* action["type"].(string), the empty string when there is no such key or
\* the value under it is no string.  typed tells how the action is written
\* here: with the dynamic type of every value (the user-signed actions) or
\* with the bare values (the L1 actions, whose type is always a string).
ActionType(action, typed) ==
    IF "type" \notin DOMAIN action THEN <<>>
    ELSE IF ~typed THEN Chars(action["type"])
    ELSE IF action["type"].t = "string" THEN action["type"].v
    ELSE <<>>

\* A variant that adds the vault address for every action type.
postActionAnyType(e, action, actionType, signature, nonce) ==
    ( IF e.vaultAddress # None
      THEN "vaultAddress" :> Str(e.vaultAddress[1]) ELSE <<>> )
    @@ ( IF e.expiresAfter # None
         THEN "expiresAfter" :> Int64(e.expiresAfter[1]) ELSE <<>> )
    @@ [action |-> action, nonce |-> Int64(nonce), signature |-> Str(signature)]

\* Exchange.postAction up to the call of Post: the payload it hands over.
\* actionType is ActionType of the action.
postAction(e, action, actionType, signature, nonce) ==
    ( IF actionType # Chars("usdClassTransfer") /\ actionType # Chars("sendAsset")
         /\ e.vaultAddress # None
      THEN "vaultAddress" :> Str(e.vaultAddress[1]) ELSE <<>> )
    @@ ( IF e.expiresAfter # None
         THEN "expiresAfter" :> Int64(e.expiresAfter[1]) ELSE <<>> )
    @@ [action |-> action, nonce |-> Int64(nonce), signature |-> Str(signature)]

\* What a method of Exchange returns and what it handed to the transport:
\* nothing when it returned before postAction, else the payload and the
\* outcome of Post.
NotPosted == [err |-> TRUE, posted |-> None]

\* A variant that posts whatever the signing returned.
PostL1Unsigned(e, action, signed, timestamp, failed) ==
    [err |-> failed,
     posted |-> Some(postAction(e, action, ActionType(action, FALSE),
                                SignatureString(signed.sig), timestamp)),
     signed |-> signed]

\* The tail of BulkOrders, BulkCancel and UpdateLeverage after SignL1Action.
\* signed is not returned by the code: it records the call of SignL1Action
\* whose signature was posted.
PostL1(e, action, signed, timestamp, failed) ==
    IF signed.err THEN NotPosted
    ELSE [err |-> failed,
          posted |-> Some(postAction(e, action, ActionType(action, FALSE),
                                     SignatureString(signed.sig), timestamp)),
          signed |-> signed]

\* The tail of BulkOrders, BulkCancel and UpdateLeverage from isMainnet on.
\* uint64(timestamp) and uint64(*e.expiresAfter) keep the eight bytes.
SignAndPostL1(e, action, timestamp, iter, failed) ==
    PostL1(e, action,
           SignL1Action(e.privateKey, action, e.vaultAddress, timestamp,
                        e.expiresAfter, e.baseURL = MainnetAPIURL, iter),
           timestamp, failed)

\* The tail of UsdClassTransfer and UsdTransfer after the signing wrapper;
\* the map the wrapper was given is the map it changed.
PostUserSigned(e, signed, timestamp, failed) ==
    IF signed.err THEN NotPosted
    ELSE [err |-> failed,
          posted |-> Some(postAction(e, signed.action, ActionType(signed.action, TRUE),
                                     SignatureString(signed.sig), timestamp))]

\* The loop of BulkOrders over the requests.
OrderWiresOf(orderRequests) ==
    [i \in 1..Len(orderRequests) |->
        IF NameToAsset(orderRequests[i].Coin).err THEN [err |-> TRUE, wire |-> None]
        ELSE OrderRequestToOrderWire(orderRequests[i],
                                     NameToAsset(orderRequests[i].Coin).asset)]

\* Exchange.BulkOrders
BulkOrders(e, orderRequests, builder, timestamp, iter, failed) ==
    IF \E i \in 1..Len(orderRequests) : OrderWiresOf(orderRequests)[i].err
    THEN NotPosted
    ELSE SignAndPostL1(e,
             OrderWiresToOrderAction(
                 [i \in 1..Len(orderRequests) |-> OrderWiresOf(orderRequests)[i].wire[1]],
                 IF builder # None THEN Some(builder[1].B) ELSE None),
             timestamp, iter, failed)

\* Exchange.BulkCancel; ranges[i] is the order in which the range over the
\* i-th cancel visits its two keys.
BulkCancel(e, cancelRequests, timestamp, ranges, iter, failed) ==
    IF \E i \in 1..Len(cancelRequests) : NameToAsset(cancelRequests[i].Coin).err
    THEN NotPosted
    ELSE SignAndPostL1(e,
             [type |-> "cancel",
              cancels |-> [i \in 1..Len(cancelRequests) |->
                              [a |-> NameToAsset(cancelRequests[i].Coin).asset,
                               o |-> cancelRequests[i].OID,
                               range |-> ranges[i]]]],
             timestamp, iter, failed)

\* Exchange.UpdateLeverage
UpdateLeverage(e, leverage, name, isCross, timestamp, iter, failed) ==
    IF NameToAsset(name).err THEN NotPosted
    ELSE SignAndPostL1(e,
             [type |-> "updateLeverage", asset |-> NameToAsset(name).asset,
              isCross |-> isCross, leverage |-> leverage],
             timestamp, iter, failed)

\* Exchange.UsdClassTransfer
UsdClassTransfer(e, amount, toPerp, timestamp, failed) ==
    PostUserSigned(e,
        SignUserSignedAction(e.privateKey,
            [type |-> Str(Chars("usdClassTransfer")),
             amount |-> Str(Sprintf6f(amount) \o
                            (IF e.vaultAddress # None
                             THEN <<" ","s","u","b","a","c","c","o","u","n","t",":">>
                                  \o e.vaultAddress[1]
                             ELSE <<>>)),
             toPerp |-> Bool(toPerp),
             nonce |-> Int64(timestamp)],
            USDClassTransferSignTypes, "HyperliquidTransaction:UsdClassTransfer",
            e.baseURL = MainnetAPIURL),
        timestamp, failed)

\* Exchange.UsdTransfer
UsdTransfer(e, amount, destination, timestamp, failed) ==
    PostUserSigned(e,
        SignUserSignedAction(e.privateKey,
            [destination |-> Str(destination),
             amount |-> Str(Sprintf6f(amount)),
             time |-> Int64(timestamp),
             type |-> Str(Chars("usdSend"))],
            USDSendSignTypes, "HyperliquidTransaction:UsdSend",
            e.baseURL = MainnetAPIURL),
        timestamp, failed)

\* GetTimestampMs at the time of a call: 0x01020304.
Clock == {16909060}

\* Order requests: none, the order of TestOrderRequestToOrderWire, that
\* order with a trigger order on the spot pair, an order for a name without
\* an asset, and an order whose size has more than eight decimals.
RequestLists ==
    LET limit == [Coin |-> "BTC", IsBuy |-> TRUE, Sz |-> Dec(FALSE, 1, 50000000, 0),
                  LimitPx |-> Dec(FALSE, 50000, 0, 0),
                  OrderType |-> [Limit |-> Some([TIF |-> "Gtc"]), Trigger |-> None],
                  ReduceOnly |-> FALSE, Cloid |-> Some(Chars("test-cloid"))]
        trigger == [Coin |-> "PURR", IsBuy |-> FALSE, Sz |-> Dec(FALSE, 100, 0, 0),
                    LimitPx |-> Dec(FALSE, 0, 50000000, 0),
                    OrderType |->
                        [Limit |-> None,
                         Trigger |-> Some([TriggerPx |-> Dec(FALSE, 100, 50000000, 0),
                                           IsMarket |-> TRUE, TPSL |-> "sl"])],
                    ReduceOnly |-> TRUE, Cloid |-> None]
    IN  { <<>>, <<limit>>, <<limit, trigger>>,
          <<[limit EXCEPT !.Coin = "OLD"]>>,
          <<[limit EXCEPT !.Sz = Dec(FALSE, 0, 12345678, 90000)]>> }

\* Actions for postAction on its own: the two types that take no vault
\* address, another type, a type that is no string, and no type at all.
PostedActions ==
    { [type |-> Str(Chars("usdClassTransfer")), amount |-> Str(Chars("1000000"))],
      [type |-> Str(Chars("sendAsset")), amount |-> Str(Chars("1000000"))],
      [type |-> Str(Chars("usdSend")), amount |-> Str(Chars("1000000"))],
      [type |-> Int64(1), amount |-> Str(Chars("1000000"))],
      [amount |-> Str(Chars("1000000"))] }

\* In out, names and orders record the arguments of the call: the names it
\* looks up and the order requests it converts.
\* A run is an Exchange as NewExchange leaves it (without a vault, with the
\* address of the tests, or with a vault that is no hex), at most one call of
\* SetExpiresAfter (with nil, 0x010203 or zero), and one call of a posting
\* method.  failed is the error of Post.
ExchangeInit ==
    /\ pc = "exchange-ready"
    /\ in \in [privateKey : PrivateKeys,
               vaultAddress : {None, Some(TestAddress), Some(<<"0","x","z","z">>)},
               baseURL : {MainnetAPIURL, "TestnetAPIURL"},
               expiresAfter : {None}]
    /\ out = NoCall
    /\ again = NoCall

\* Exchange.SetExpiresAfter
CallSetExpiresAfter ==
    /\ pc = "exchange-ready"
    /\ \E expiresAfter \in {None, Some(66051), Some(0)} :
          /\ in' = [in EXCEPT !.expiresAfter = expiresAfter]
          /\ out' = [op |-> "SetExpiresAfter", expiresAfter |-> expiresAfter]
    /\ pc' = "exchange-configured"
    /\ UNCHANGED again

CallPostAction ==
    /\ pc \in {"exchange-ready", "exchange-configured"}
    /\ \E action \in PostedActions,
          signature \in {SignatureString(SignatureOf([i \in 1..65 |-> i % 2]))},
          nonce \in Clock, failed \in BOOLEAN :
          out' = [op |-> "postAction",
                  res |-> [err |-> failed,
                           posted |-> Some(postAction(in, action,
                                                      ActionType(action, TRUE),
                                                      signature, nonce))]]
    /\ pc' = "exchange-posted"
    /\ UNCHANGED <<in, again>>

CallBulkOrders ==
    /\ pc \in {"exchange-ready", "exchange-configured"}
    /\ \E orderRequests \in RequestLists, builder \in {None, Some([B |-> "test-builder", F |-> 10])},
          timestamp \in Clock, failed \in BOOLEAN :
          \E iter \in IterationOrders(OrderWiresToOrderAction(<<>>,
                          IF builder # None THEN Some(builder[1].B) ELSE None)) :
             out' = [op |-> "BulkOrders",
                     names |-> [i \in 1..Len(orderRequests) |-> orderRequests[i].Coin],
                     orders |-> orderRequests,
                     res |-> BulkOrders(in, orderRequests, builder, timestamp, iter,
                                        failed)]
    /\ pc' = "exchange-ordered"
    /\ UNCHANGED <<in, again>>

CallBulkCancel ==
    /\ pc \in {"exchange-ready", "exchange-configured"}
    /\ \E cancelRequests \in
             { <<>>, <<[Coin |-> "BTC", OID |-> 123]>>,
               <<[Coin |-> "BTC", OID |-> 123], [Coin |-> "PURR", OID |-> 70000]>>,
               <<[Coin |-> "OLD", OID |-> 1]>> },
          timestamp \in Clock,
          failed \in BOOLEAN,
          iter \in IterationOrders([type |-> "cancel", cancels |-> <<>>]) :
          \E ranges \in [1..Len(cancelRequests) -> {<<"a", "o">>, <<"o", "a">>}] :
             out' = [op |-> "BulkCancel",
                     names |-> [i \in 1..Len(cancelRequests) |-> cancelRequests[i].Coin],
                     orders |-> <<>>,
                     res |-> BulkCancel(in, cancelRequests, timestamp, ranges, iter,
                                        failed)]
    /\ pc' = "exchange-cancelled"
    /\ UNCHANGED <<in, again>>

CallUpdateLeverage ==
    /\ pc \in {"exchange-ready", "exchange-configured"}
    /\ \E leverage \in {20}, name \in {"BTC", "ETH"}, isCross \in BOOLEAN,
          timestamp \in Clock, failed \in BOOLEAN,
          iter \in IterationOrders([type |-> "updateLeverage", asset |-> 0,
                                    isCross |-> FALSE, leverage |-> 0]) :
          out' = [op |-> "UpdateLeverage", names |-> <<name>>, orders |-> <<>>,
                  res |-> UpdateLeverage(in, leverage, name, isCross, timestamp, iter,
                                         failed)]
    /\ pc' = "exchange-leveraged"
    /\ UNCHANGED <<in, again>>

CallUsdClassTransfer ==
    /\ pc \in {"exchange-ready", "exchange-configured"}
    /\ \E amount \in {Dec(FALSE, 1, 50000000, 0), Dec(FALSE, 0, 12345650, 0)}, toPerp \in BOOLEAN, timestamp \in Clock,
          failed \in BOOLEAN :
          out' = [op |-> "UsdClassTransfer",
                  res |-> UsdClassTransfer(in, amount, toPerp, timestamp, failed)]
    /\ pc' = "exchange-class-transferred"
    /\ UNCHANGED <<in, again>>

CallUsdTransfer ==
    /\ pc \in {"exchange-ready", "exchange-configured"}
    /\ \E amount \in {Dec(FALSE, 1, 50000000, 0), Dec(FALSE, 0, 12345650, 0)}, destination \in {TestAddress}, timestamp \in Clock,
          failed \in BOOLEAN :
          out' = [op |-> "UsdTransfer",
                  res |-> UsdTransfer(in, amount, destination, timestamp, failed)]
    /\ pc' = "exchange-transferred"
    /\ UNCHANGED <<in, again>>

ExchangeNext ==
    \/ CallSetExpiresAfter
    \/ CallPostAction
    \/ CallBulkOrders
    \/ CallBulkCancel
    \/ CallUpdateLeverage
    \/ CallUsdClassTransfer
    \/ CallUsdTransfer

ExchangeSpec == ExchangeInit /\ [][ExchangeNext]_vars

(***************************************************************************)
(* The two networks: the same call of SignL1Action or of a signing wrapper *)
(* made once with isMainnet true and once with isMainnet false.            *)
(***************************************************************************)

\* An L1 call without a builder, or a user-signed call; the caller of the
\* second holds nothing under signatureChainId and hyperliquidChain yet.
NetInputs ==
    { [kind |-> "l1", call |-> i] : i \in { j \in L1Inputs : j.builder = None } }
    \cup
    { [kind |-> "user", call |-> i] :
        i \in { j \in UserInputs : j.isMainnet /\ "signatureChainId" \notin DOMAIN j.action } }

\* One call on a network; iter is the order of msgpack.Marshal's range over
\* an L1 action.
SignOnNetwork(i, privateKey, isMainnet, iter) ==
    IF i.kind = "l1"
    THEN [op |-> "SignL1Action",
          res |-> SignL1Action(privateKey, ActionOf(i.call), i.call.vaultAddress,
                               i.call.nonce, i.call.expiresAfter, isMainnet, iter)]
    ELSE [op |-> "SignUserSignedAction",
          res |-> SignUserSignedAction(privateKey, i.call.action,
                                       PayloadTypesOf(i.call.wrapper),
                                       PrimaryTypeOf(i.call.wrapper), isMainnet)]

NetInit ==
    /\ pc = "net-ready"
    /\ in \in NetInputs
    /\ out = NoCall
    /\ again = NoCall

SignOnMainnet ==
    /\ pc = "net-ready"
    /\ \E privateKey \in PrivateKeys,
          iter \in IF in.kind = "l1" THEN IterationOrders(ActionOf(in.call))
                   ELSE {<<>>} :
          out' = SignOnNetwork(in, privateKey, TRUE, iter)
    /\ pc' = "net-mainnet"
    /\ UNCHANGED <<in, again>>

SignOnTestnet ==
    /\ pc = "net-mainnet"
    /\ \E privateKey \in PrivateKeys,
          iter \in IF in.kind = "l1" THEN IterationOrders(ActionOf(in.call))
                   ELSE {<<>>} :
          again' = SignOnNetwork(in, privateKey, FALSE, iter)
    /\ pc' = "net-both"
    /\ UNCHANGED <<in, out>>

NetNext == SignOnMainnet \/ SignOnTestnet

NetSpec == NetInit /\ [][NetNext]_vars

(***************************************************************************)
(* An Exchange in use: one goroutine calls BulkOrders and BulkCancel one   *)
(* after the other, another calls SetExpiresAfter, and the clock that      *)
(* GetTimestampMs reads moves on.  No method of Exchange takes a lock, so  *)
(* a posting method is two steps here, one up to the return of            *)
(* SignL1Action and one for postAction: between them lies its second read  *)
(* of e.expiresAfter.                                                      *)
(***************************************************************************)

\* The clock shows 12345 ms at first and at most MaxClock ms more.
MaxClock == 1

\* The locals of a posting method after SignL1Action: expiresAfter is what it
\* read from e.expiresAfter for the hash.
Locals(e, action, timestamp, signed) ==
    [op |-> "signed", action |-> action, timestamp |-> timestamp,
     expiresAfter |-> e.expiresAfter, signed |-> signed]

\* A posting method up to the return of SignL1Action.
SignL1(e, action, timestamp, iter) ==
    Locals(e, action, timestamp,
           SignL1Action(e.privateKey, action, e.vaultAddress, timestamp,
                        e.expiresAfter, e.baseURL = MainnetAPIURL, iter))

\* What the model keeps of a post (in again, as last, with the nonce of the
\* post before it as prev): the nonce and the expiry of the payload, and the
\* expiry that went into the hash.
PostRecord(payload, locals) ==
    [nonce |-> payload.nonce.v,
     expiresAfter |-> IF "expiresAfter" \in DOMAIN payload
                      THEN Some(payload["expiresAfter"].v) ELSE None,
     hashed |-> locals.expiresAfter]

LiveInit ==
    /\ pc = "live-idle"
    /\ in = [e |-> [privateKey |-> <<7, 1>>, vaultAddress |-> None,
                    baseURL |-> MainnetAPIURL, expiresAfter |-> None],
             now |-> 12345]
    /\ out = NoCall
    /\ again = [prev |-> None, last |-> None]

\* A millisecond passes.
Tick ==
    /\ in.now < 12345 + MaxClock
    /\ in' = [in EXCEPT !.now = @ + 1]
    /\ UNCHANGED <<pc, out, again>>

\* Exchange.SetExpiresAfter, at any time.
SetExpiresAfterMeanwhile ==
    /\ \E expiresAfter \in {None, Some(66051)} :
          /\ expiresAfter # in.e.expiresAfter
          /\ in' = [in EXCEPT !.e.expiresAfter = expiresAfter]
    /\ UNCHANGED <<pc, out, again>>

\* Exchange.BulkOrders up to the return of SignL1Action; a call that fails
\* before leaves nothing behind.
BulkOrdersSign ==
    /\ pc = "live-idle"
    /\ \E orderRequests \in {r \in RequestLists : Len(r) = 1},
          iter \in IterationOrders(OrderWiresToOrderAction(<<>>, None)) :
          /\ \A i \in 1..Len(orderRequests) : ~OrderWiresOf(orderRequests)[i].err
          /\ out' = SignL1(in.e,
                       OrderWiresToOrderAction(
                           [i \in 1..Len(orderRequests) |->
                               OrderWiresOf(orderRequests)[i].wire[1]], None),
                       in.now, iter)
    /\ pc' = "live-signed"
    /\ UNCHANGED <<in, again>>

\* Exchange.BulkCancel up to the return of SignL1Action.
BulkCancelSign ==
    /\ pc = "live-idle"
    /\ \E range \in {<<"a", "o">>, <<"o", "a">>},
          iter \in IterationOrders([type |-> "cancel", cancels |-> <<>>]) :
          out' = SignL1(in.e,
                    [type |-> "cancel",
                     cancels |-> <<[a |-> NameToAsset("BTC").asset, o |-> 123,
                                    range |-> range]>>],
                    in.now, iter)
    /\ pc' = "live-signed"
    /\ UNCHANGED <<in, again>>

\* The rest of the method: the error of SignL1Action, or postAction.
PostSigned ==
    /\ pc = "live-signed"
    /\ \E failed \in BOOLEAN :
          LET res == PostL1(in.e, out.action, out.signed, out.timestamp, failed) IN
          IF res.posted = None
          THEN out' = [op |-> "failed"] /\ UNCHANGED again
          ELSE /\ out' = [op |-> "posted"]
               /\ again' = [prev |-> IF again.last = None THEN None
                                     ELSE Some(again.last[1].nonce),
                            last |-> Some(PostRecord(res.posted[1], out))]
    /\ pc' = "live-idle"
    /\ UNCHANGED in

LiveNext ==
    \/ Tick
    \/ SetExpiresAfterMeanwhile
    \/ BulkOrdersSign
    \/ BulkCancelSign
    \/ PostSigned

LiveSpec == LiveInit /\ [][LiveNext]_vars

(***************************************************************************)
(* Concurrent signing.  Each thread makes one call, of SignL1Action or of  *)
(* SignUSDTransferAction, on arguments of its own.  What the calls can     *)
(* share is the memory: the package-level sign types and the action maps   *)
(* (a Go map is a reference).  A call of SignL1Action only reads, so it is *)
(* one step; a user-signed call writes its map twice and then reads it,   *)
(* three steps.                                                            *)
(*   pc[t]    the position of thread t                                     *)
(*   in[t]    the arguments of its call                                    *)
(*   out      the memory: types, the sign types; maps, the action maps     *)
(*   again[t] what its call returned                                       *)
(***************************************************************************)

MaxThreads == 2

Threads == 1..MaxThreads

\* A variant in which every caller passes the same map.
SharedMap(t) == 1

\* The map a caller passes: one it made for this call.
OwnMap(t) == t

\* The calls of thread t: a transfer on either network with the time t as
\* its nonce, or the action of TestActionHash with the nonce 12345 + t.
ThreadCalls(t) ==
    { [kind |-> "user", wrapper |-> "SignUSDTransferAction", isMainnet |-> m,
       action |-> [destination |-> Str(TestAddress), amount |-> Str(Chars("1000000")),
                   time |-> Uint64(t)]] : m \in BOOLEAN }
    \cup
    { [kind |-> "l1", action |-> [type |-> "order", orders |-> <<>>],
       vaultAddress |-> None, nonce |-> 12345 + t, expiresAfter |-> None,
       isMainnet |-> TRUE] }

ThreadInit ==
    /\ pc = [t \in Threads |-> "thread-ready"]
    /\ in \in { c \in [Threads -> UNION { ThreadCalls(t) : t \in Threads }] :
                  \A t \in Threads : c[t] \in ThreadCalls(t) }
    /\ out = [types |-> [w \in Wrappers |-> PayloadTypesOf(w)],
              maps |-> [m \in Threads |->
                           IF \E t \in Threads : OwnMap(t) = m
                           THEN in[CHOOSE t \in Threads : OwnMap(t) = m].action
                           ELSE <<>>]]
    /\ again = [t \in Threads |-> NoCall]

\* SignL1Action, the whole call.
ThreadSignL1Action(t) ==
    /\ pc[t] = "thread-ready"
    /\ in[t].kind = "l1"
    /\ \E iter \in IterationOrders(out.maps[OwnMap(t)]) :
          again' = [again EXCEPT ![t] =
                       SignL1Action(<<7, 1>>, out.maps[OwnMap(t)], in[t].vaultAddress,
                                    in[t].nonce, in[t].expiresAfter, in[t].isMainnet,
                                    iter)]
    /\ pc' = [pc EXCEPT ![t] = "thread-done"]
    /\ UNCHANGED <<in, out>>

\* action["signatureChainId"] = "0x66eee"
ThreadSetChainId(t) ==
    /\ pc[t] = "thread-ready"
    /\ in[t].kind = "user"
    /\ out' = [out EXCEPT !.maps[OwnMap(t)] =
                  ("signatureChainId" :> Str(Chars("0x66eee"))) @@ @]
    /\ pc' = [pc EXCEPT ![t] = "thread-chain-id"]
    /\ UNCHANGED <<in, again>>

\* action["hyperliquidChain"] = "Mainnet" or "Testnet"
ThreadSetChain(t) ==
    /\ pc[t] = "thread-chain-id"
    /\ out' = [out EXCEPT !.maps[OwnMap(t)] =
                  ("hyperliquidChain" :>
                      Str(Chars(IF in[t].isMainnet THEN "Mainnet" ELSE "Testnet"))) @@ @]
    /\ pc' = [pc EXCEPT ![t] = "thread-chain"]
    /\ UNCHANGED <<in, again>>

\* UserSignedPayload and SignInner on the map and the sign types as they are
\* in memory now.
ThreadSignPayload(t) ==
    /\ pc[t] = "thread-chain"
    /\ again' = [again EXCEPT ![t] =
                    SignChainedAction(<<7, 1>>, out.maps[OwnMap(t)],
                                      out.types[in[t].wrapper],
                                      PrimaryTypeOf(in[t].wrapper))]
    /\ pc' = [pc EXCEPT ![t] = "thread-done"]
    /\ UNCHANGED <<in, out>>

ThreadNext ==
    \E t \in Threads :
        \/ ThreadSignL1Action(t)
        \/ ThreadSetChainId(t)
        \/ ThreadSetChain(t)
        \/ ThreadSignPayload(t)

ThreadSpec == ThreadInit /\ [][ThreadNext]_vars

(***************************************************************************)
(* WebSocketManager.  A manager value w is the record of its fields: conn  *)
(* (TRUE once Start has dialled), subscriptionIDCounter, wsReady,          *)
(* queuedSubscriptions and activeSubscriptions, a Go map: a function on    *)
(* the identifiers assigned so far, read with the zero value for a key it  *)
(* does not hold.  A callback is a name.  A subscription is the record of  *)
(* its fields, a WsMsg has a Channel and a Data, which is a JSON object    *)
(* (kind "map"), a JSON array (kind "list") or absent (kind "none").       *)
(***************************************************************************)

\* strings.ToLower on ASCII.
ToLower(cs) ==
    [i \in 1..Len(cs) |->
        IF CharCodes[cs[i]] \in 65..90
        THEN PrintableHigh[CharCodes[cs[i]] + 32 - 96]
        ELSE cs[i]]

subscriptionToIdentifier(subscription) ==
    CASE subscription.Type = "allMids" -> Chars("allMids")
      [] subscription.Type = "l2Book" -> Chars("l2Book:") \o ToLower(subscription.Coin)
      [] subscription.Type = "trades" -> Chars("trades:") \o ToLower(subscription.Coin)
      [] subscription.Type = "userEvents" -> Chars("userEvents")
      [] subscription.Type = "userFills" -> Chars("userFills:") \o ToLower(subscription.User)
      [] subscription.Type = "candle" ->
            Chars("candle:") \o ToLower(subscription.Coin) \o Chars(",")
                \o subscription.Interval
      [] subscription.Type = "orderUpdates" -> Chars("orderUpdates")
      [] subscription.Type = "userFundings" ->
            Chars("userFundings:") \o ToLower(subscription.User)
      [] subscription.Type = "userNonFundingLedgerUpdates" ->
            Chars("userNonFundingLedgerUpdates:") \o ToLower(subscription.User)
      [] subscription.Type = "webData2" -> Chars("webData2:") \o ToLower(subscription.User)
      [] subscription.Type = "bbo" -> Chars("bbo:") \o ToLower(subscription.Coin)
      [] subscription.Type = "activeAssetCtx" ->
            Chars("activeAssetCtx:") \o ToLower(subscription.Coin)
      [] subscription.Type = "activeAssetData" ->
            Chars("activeAssetData:") \o ToLower(subscription.Coin) \o Chars(",")
                \o ToLower(subscription.User)
      [] OTHER -> <<>>

\* data[key].(string) on a JSON object: None when the assertion fails.
StringField(data, key) ==
    IF data.kind = "map" /\ key \in DOMAIN data.fields /\ data.fields[key].t = "string"
    THEN Some(data.fields[key].v)
    ELSE None

\* "prefix" + strings.ToLower(data[key]) where data is an object with that
\* string field, "" otherwise.
FieldIdentifier(prefix, data, key) ==
    IF StringField(data, key) # None
    THEN Chars(prefix) \o ToLower(StringField(data, key)[1])
    ELSE <<>>

wsMsgToIdentifier(wsMsg) ==
    CASE wsMsg.Channel = "pong" -> Chars("pong")
      [] wsMsg.Channel = "allMids" -> Chars("allMids")
      [] wsMsg.Channel = "l2Book" -> FieldIdentifier("l2Book:", wsMsg.Data, "coin")
      [] wsMsg.Channel = "trades" ->
            IF wsMsg.Data.kind = "list" /\ Len(wsMsg.Data.items) > 0
            THEN FieldIdentifier("trades:", wsMsg.Data.items[1], "coin")
            ELSE <<>>
      [] wsMsg.Channel = "user" -> Chars("userEvents")
      [] wsMsg.Channel = "userFills" -> FieldIdentifier("userFills:", wsMsg.Data, "user")
      [] wsMsg.Channel = "candle" ->
            IF StringField(wsMsg.Data, "s") # None /\ StringField(wsMsg.Data, "i") # None
            THEN Chars("candle:") \o ToLower(StringField(wsMsg.Data, "s")[1]) \o Chars(",")
                    \o StringField(wsMsg.Data, "i")[1]
            ELSE <<>>
      [] wsMsg.Channel = "orderUpdates" -> Chars("orderUpdates")
      [] wsMsg.Channel = "userFundings" ->
            FieldIdentifier("userFundings:", wsMsg.Data, "user")
      [] wsMsg.Channel = "userNonFundingLedgerUpdates" ->
            FieldIdentifier("userNonFundingLedgerUpdates:", wsMsg.Data, "user")
      [] wsMsg.Channel = "webData2" -> FieldIdentifier("webData2:", wsMsg.Data, "user")
      [] wsMsg.Channel = "bbo" -> FieldIdentifier("bbo:", wsMsg.Data, "coin")
      [] wsMsg.Channel \in {"activeAssetCtx", "activeSpotAssetCtx"} ->
            FieldIdentifier("activeAssetCtx:", wsMsg.Data, "coin")
      [] wsMsg.Channel = "activeAssetData" ->
            IF StringField(wsMsg.Data, "coin") # None /\ StringField(wsMsg.Data, "user") # None
            THEN Chars("activeAssetData:") \o ToLower(StringField(wsMsg.Data, "coin")[1])
                    \o Chars(",") \o ToLower(StringField(wsMsg.Data, "user")[1])
            ELSE <<>>
      [] OTHER -> <<>>

\* w.activeSubscriptions[identifier]: the zero value, an empty slice, when
\* the map has no such key.
ActiveOf(w, identifier) ==
    IF identifier \in DOMAIN w.activeSubscriptions
    THEN w.activeSubscriptions[identifier]
    ELSE <<>>

\* w.activeSubscriptions[identifier] = subscriptions
SetActive(w, identifier, subscriptions) ==
    [w EXCEPT !.activeSubscriptions =
        (identifier :> subscriptions) @@ w.activeSubscriptions]

\* A variant that registers a second userEvents or orderUpdates subscription.
subscribeInternalUnchecked(w, subscription, callback, subscriptionID) ==
    [w |-> SetActive(w, subscriptionToIdentifier(subscription),
               Append(ActiveOf(w, subscriptionToIdentifier(subscription)),
                      [Callback |-> callback, SubscriptionID |-> subscriptionID])),
     sent |-> IF w.conn THEN <<[method |-> "subscribe", subscription |-> subscription]>>
              ELSE <<>>]

\* The manager after the call and the messages written to the connection.
subscribeInternal(w, subscription, callback, subscriptionID) ==
    IF /\ subscriptionToIdentifier(subscription)
              \in {Chars("userEvents"), Chars("orderUpdates")}
       /\ Len(ActiveOf(w, subscriptionToIdentifier(subscription))) # 0
    THEN [w |-> w, sent |-> <<>>]
    ELSE [w |-> SetActive(w, subscriptionToIdentifier(subscription),
                    Append(ActiveOf(w, subscriptionToIdentifier(subscription)),
                           [Callback |-> callback, SubscriptionID |-> subscriptionID])),
          sent |-> IF w.conn
                   THEN <<[method |-> "subscribe", subscription |-> subscription]>>
                   ELSE <<>>]

\* The loop of onOpen over the queue from its i-th element, sent being the
\* messages written so far.
RECURSIVE ProcessQueued(_, _, _, _)
ProcessQueued(w, queued, i, sent) ==
    IF i > Len(queued) THEN [w |-> w, sent |-> sent]
    ELSE LET r == subscribeInternal(w, queued[i].subscription, queued[i].active.Callback,
                                    queued[i].active.SubscriptionID)
         IN  ProcessQueued(r.w, queued, i + 1, sent \o r.sent)

\* A variant that leaves the queue as it is.
onOpenKeepingQueue(w) ==
    ProcessQueued([w EXCEPT !.wsReady = TRUE], w.queuedSubscriptions, 1, <<>>)

onOpen(w) ==
    LET r == ProcessQueued([w EXCEPT !.wsReady = TRUE], w.queuedSubscriptions, 1, <<>>)
    IN  [w |-> [r.w EXCEPT !.queuedSubscriptions = <<>>], sent |-> r.sent]

\* The callbacks onMessage calls, in the order of the calls.
onMessage(w, wsMsg) ==
    IF wsMsgToIdentifier(wsMsg) = Chars("pong") \/ wsMsgToIdentifier(wsMsg) = <<>>
    THEN <<>>
    ELSE [i \in 1..Len(ActiveOf(w, wsMsgToIdentifier(wsMsg))) |->
             ActiveOf(w, wsMsgToIdentifier(wsMsg))[i].Callback]

\* The manager after the call, the messages written, the ID returned.
Subscribe(w, subscription, callback) ==
    LET subscriptionID == w.subscriptionIDCounter + 1
        counted == [w EXCEPT !.subscriptionIDCounter = subscriptionID]
    IN  IF ~w.wsReady
        THEN [w |-> [counted EXCEPT !.queuedSubscriptions =
                        Append(@, [subscription |-> subscription,
                                   active |-> [Callback |-> callback,
                                               SubscriptionID |-> subscriptionID]])],
              sent |-> <<>>, returned |-> subscriptionID]
        ELSE [w |-> subscribeInternal(counted, subscription, callback, subscriptionID).w,
              sent |-> subscribeInternal(counted, subscription, callback, subscriptionID).sent,
              returned |-> subscriptionID]

\* The active subscriptions without those of the given ID, in their order.
RECURSIVE WithoutID(_, _)
WithoutID(activeSubscriptions, subscriptionID) ==
    IF activeSubscriptions = <<>> THEN <<>>
    ELSE IF Head(activeSubscriptions).SubscriptionID # subscriptionID
         THEN <<Head(activeSubscriptions)>> \o WithoutID(Tail(activeSubscriptions), subscriptionID)
         ELSE WithoutID(Tail(activeSubscriptions), subscriptionID)

\* A variant that drops every subscription of the identifier.
UnsubscribeAll(w, subscription, subscriptionID) ==
    IF ~w.wsReady THEN [w |-> w, sent |-> <<>>, returned |-> FALSE]
    ELSE [w |-> SetActive(w, subscriptionToIdentifier(subscription), <<>>),
          sent |-> IF w.conn
                   THEN <<[method |-> "unsubscribe", subscription |-> subscription]>>
                   ELSE <<>>,
          returned |-> Len(ActiveOf(w, subscriptionToIdentifier(subscription))) # 0]

\* The manager after the call, the messages written, the value returned.
Unsubscribe(w, subscription, subscriptionID) ==
    IF ~w.wsReady THEN [w |-> w, sent |-> <<>>, returned |-> FALSE]
    ELSE LET identifier == subscriptionToIdentifier(subscription)
             activeSubscriptions == ActiveOf(w, identifier)
             newActiveSubscriptions == WithoutID(activeSubscriptions, subscriptionID)
         IN  [w |-> SetActive(w, identifier, newActiveSubscriptions),
              sent |-> IF Len(newActiveSubscriptions) = 0 /\ w.conn
                       THEN <<[method |-> "unsubscribe", subscription |-> subscription]>>
                       ELSE <<>>,
              returned |-> Len(activeSubscriptions) # Len(newActiveSubscriptions)]

(***************************************************************************)
(* WsSpec: one manager, its callers and its connection.  Every handler    *)
(* runs under w.mu, so it is one step.                                     *)
(*   pc     "ws-new" after NewWebSocketManager, "ws-started" after Start,  *)
(*          "ws-open" once the connection-established message was handled  *)
(*   in     the manager                                                    *)
(*          (every Subscribe call passes a callback of its own)            *)
(*   out    the last call: its arguments, the manager before it, the       *)
(*          messages it wrote to the connection, what it returned or the   *)
(*          callbacks it called                                            *)
(*   again  the calls of Subscribe so far, the k-th with what it returned, *)
(*          and the IDs Unsubscribe was called with                        *)
(***************************************************************************)

MaxSubscriptions == 2

Subscriptions ==
    { [Type |-> "userEvents", Coin |-> <<>>, User |-> TestAddress, Interval |-> <<>>],
      [Type |-> "orderUpdates", Coin |-> <<>>, User |-> TestAddress, Interval |-> <<>>],
      [Type |-> "l2Book", Coin |-> Chars("BTC"), User |-> <<>>, Interval |-> <<>>] }

WsMsgs ==
    { [Channel |-> "user", Data |-> [kind |-> "map", fields |-> <<>>]],
      [Channel |-> "orderUpdates", Data |-> [kind |-> "list", items |-> <<>>]],
      [Channel |-> "l2Book",
       Data |-> [kind |-> "map", fields |-> [coin |-> Str(Chars("btc"))]]],
      [Channel |-> "l2Book", Data |-> [kind |-> "map", fields |-> <<>>]],
      [Channel |-> "pong", Data |-> [kind |-> "none"]] }

WsInit ==
    /\ pc = "ws-new"
    /\ in = [conn |-> FALSE, subscriptionIDCounter |-> 0, wsReady |-> FALSE,
             queuedSubscriptions |-> <<>>, activeSubscriptions |-> <<>>]
    /\ out = NoCall
    /\ again = [calls |-> <<>>, unsubscribed |-> {}]

WsStart ==
    /\ pc = "ws-new"
    /\ in' = [in EXCEPT !.conn = TRUE]
    /\ pc' = "ws-started"
    /\ out' = [op |-> "Start"]
    /\ UNCHANGED again

\* handleMessages reads "Websocket connection established."
WsOpen ==
    /\ pc \in {"ws-started", "ws-open"}
    /\ in' = onOpen(in).w
    /\ pc' = "ws-open"
    /\ out' = [op |-> "onOpen", before |-> in, sent |-> onOpen(in).sent]
    /\ UNCHANGED again

\* handleMessages reads a JSON message.
WsMessage ==
    /\ pc \in {"ws-started", "ws-open"}
    /\ \E wsMsg \in WsMsgs :
          out' = [op |-> "onMessage", wsMsg |-> wsMsg, called |-> onMessage(in, wsMsg)]
    /\ UNCHANGED <<pc, in, again>>

CallSubscribe ==
    /\ in.subscriptionIDCounter < MaxSubscriptions
    /\ \E subscription \in Subscriptions,
          callback \in {[name |-> "callback", call |-> in.subscriptionIDCounter + 1]} :
          /\ in' = Subscribe(in, subscription, callback).w
          /\ out' = [op |-> "Subscribe", subscription |-> subscription,
                     callback |-> callback, before |-> in,
                     sent |-> Subscribe(in, subscription, callback).sent,
                     returned |-> Subscribe(in, subscription, callback).returned]
          /\ again' = [again EXCEPT !.calls =
                          Append(@, [subscription |-> subscription, callback |-> callback,
                                     returned |-> Subscribe(in, subscription, callback).returned])]
    /\ UNCHANGED pc

CallUnsubscribe ==
    /\ \E subscription \in Subscriptions,
          subscriptionID \in 1..(IF in.subscriptionIDCounter = 0 THEN 1
                                 ELSE in.subscriptionIDCounter) :
          /\ in' = Unsubscribe(in, subscription, subscriptionID).w
          /\ out' = [op |-> "Unsubscribe", subscription |-> subscription,
                     subscriptionID |-> subscriptionID, before |-> in,
                     sent |-> Unsubscribe(in, subscription, subscriptionID).sent,
                     returned |-> Unsubscribe(in, subscription, subscriptionID).returned]
          /\ again' = [again EXCEPT !.unsubscribed = @ \cup {subscriptionID}]
    /\ UNCHANGED pc

WsNext ==
    \/ WsStart
    \/ WsOpen
    \/ WsMessage
    \/ CallSubscribe
    \/ CallUnsubscribe

WsSpec == WsInit /\ [][WsNext]_vars

(***************************************************************************)
(* Properties                                                              *)
(***************************************************************************)

\* Byte k (0 the least significant) of a number below 2^31.
ByteOfNumber(n, k) == IF k >= 4 THEN 0 ELSE (n \div (256 ^ k)) % 256

\* The number of bytes ActionHash appends for the vault: the marker, and one
\* byte for every two hex digits of the address.
VaultFrameLen(vaultAddress) ==
    IF vaultAddress = None THEN 1
    ELSE 1 + (Len(TrimPrefix(vaultAddress[1], <<"0", "x">>)) \div 2)

Hashed == pc = "hashed" /\ ~out.res.err

\* C1: ActionHash is deterministic: a second call with the same action,
\* nonce, vault address and expiry returns the same outcome and the same
\* bytes as the first, and every hash returned without error is 32 bytes long.
C1_ActionHashDeterministic ==
    /\ Hashed => Len(out.res.hash) = 32
    /\ pc = "rehashed" =>
          /\ again.res.err = out.res.err
          /\ again.res.hash = out.res.hash
          /\ (~again.res.err => Len(again.res.hash) = 32)

\* The keys of an order action in the order OrderWiresToOrderAction inserts
\* them.
InsertionOrder(builder) ==
    <<"type", "orders", "grouping">> \o (IF builder = None THEN <<>> ELSE <<"builder">>)

\* C2: the serialised form of an action built by OrderWiresToOrderAction
\* holds the keys in the order type, orders, grouping, builder (when
\* present), in every call of ActionHash.
C2_KeysInInsertionOrder ==
    (pc = "hashed" /\ in.build = "OrderWiresToOrderAction") =>
        out.res.packed = EncodeMap(ActionOf(in), InsertionOrder(in.builder))

\* C3: in the hashed byte stream the serialised action is followed at once
\* by the nonce as 8 bytes, most significant first; after the vault frame the
\* stream ends with 0x00 and the expiry as 8 big-endian bytes when an expiry
\* is given, and ends there when none is given.
C3_NonceAndExpiryFraming ==
    Hashed =>
        LET data == out.res.data
            n == Len(out.res.packed)
            tail == n + 8 + VaultFrameLen(in.vaultAddress)
        IN  /\ Len(data) >= n + 8
            /\ SubSeq(data, 1, n) = out.res.packed
            /\ \A k \in 0..7 : data[n + 8 - k] = ByteOfNumber(in.nonce, k)
            /\ IF in.expiresAfter = None
               THEN Len(data) = tail
               ELSE /\ Len(data) = tail + 9
                    /\ data[tail + 1] = 0
                    /\ \A k \in 0..7 :
                          data[tail + 9 - k] = ByteOfNumber(in.expiresAfter[1], k)

C3_Witness ==
    /\ Hashed
    /\ in.nonce = 16909060
    /\ in.expiresAfter = Some(66051)
    /\ in.vaultAddress = Some(TestAddress)
    /\ in.orderWires # <<>>

\* C4: in the hashed byte stream the nonce is followed by the single byte
\* 0x00 when no vault address is given, and otherwise by 0x01 and exactly
\* the 20 bytes of the vault address, whenever ActionHash returns a hash.
C4_VaultMarker ==
    Hashed =>
        LET data == out.res.data
            n == Len(out.res.packed) + 8
            rest == IF in.expiresAfter = None THEN 0 ELSE 9
        IN  IF in.vaultAddress = None
            THEN Len(data) = n + 1 + rest /\ data[n + 1] = 0
            ELSE /\ Len(data) = n + 21 + rest
                 /\ data[n + 1] = 1
                 /\ \A i \in 1..20 :
                       data[n + 1 + i] =
                           16 * DigitValue(TrimPrefix(in.vaultAddress[1], <<"0", "x">>)[2 * i - 1])
                           + DigitValue(TrimPrefix(in.vaultAddress[1], <<"0", "x">>)[2 * i])

Signed == pc = "signed" /\ ~out.res.err

\* C5: what SignL1Action signs is never the raw action: its signature is the
\* signature of the typed data with domain {Exchange, 1, 1337, zero
\* address}, primary type Agent (source: string, connectionId: bytes32) and
\* the phantom agent of ActionHash(action, vault, nonce, expiry) and the
\* network flag as message.
C5_SignsTheAgentTypedData ==
    Signed =>
        LET td == out.res.data
            hashed == out.res.hashed
        IN  /\ \E iter \in IterationOrders(ActionOf(in)) :
                  hashed = ActionHash(ActionOf(in), in.vaultAddress, in.nonce,
                                      in.expiresAfter, iter)
            /\ td.PrimaryType = "Agent"
            /\ td.Domain = [Name |-> Chars("Exchange"), Version |-> <<"1">>,
                            ChainId |-> 1337,
                            VerifyingContract |-> <<"0", "x">> \o [i \in 1..40 |-> "0"]]
            /\ td.Types["Agent"] = << [Name |-> "source", Type |-> "string"],
                                      [Name |-> "connectionId", Type |-> "bytes32"] >>
            /\ td.Message = [source |-> Str(IF out.isMainnet THEN <<"a">> ELSE <<"b">>),
                             connectionId |-> Str(<<"0", "x">> \o HexEncodeToString(hashed.hash))]
            /\ out.res.sig = SignInner(out.privateKey, td).sig
            /\ out.res.digest = SignInner(out.privateKey, td).digest
            /\ out.res.digest # hashed.hash
            /\ out.res.digest # Keccak256(hashed.packed)
            /\ out.res.digest # Keccak256(hashed.data)

C5_Witness ==
    /\ Signed
    /\ out.isMainnet
    /\ in.orderWires # <<>>
    /\ in.vaultAddress = Some(TestAddress)
    /\ Len(out.res.sig.R) = 66

\* The position of a character among the hex digits 0..9, a..f, from 0.
HexDigitIndex(c) ==
    CHOOSE d \in 0..15 :
        <<"0","1","2","3","4","5","6","7","8","9","a","b","c","d","e","f">>[d + 1] = c

\* C6: ConstructPhantomAgent returns source "a" on mainnet and "b"
\* otherwise, and a connectionId that begins with 0x and is the hex encoding
\* of exactly the bytes of the input hash.
C6_PhantomAgent ==
    pc = "agent-done" =>
        LET cid == out.res.ConnectionID IN
        /\ out.res.Source = (IF in.isMainnet THEN "a" ELSE "b")
        /\ Len(cid) = 2 + 2 * Len(in.hash)
        /\ cid[1] = "0" /\ cid[2] = "x"
        /\ \A i \in 1..Len(in.hash) :
              /\ cid[2 * i + 1] \in {HexAlphabet[d] : d \in 1..16}
              /\ cid[2 * i + 2] \in {HexAlphabet[d] : d \in 1..16}
              /\ 16 * HexDigitIndex(cid[2 * i + 1]) + HexDigitIndex(cid[2 * i + 2])
                    = in.hash[i]

C6_Witness ==
    /\ pc = "agent-done"
    /\ in.hash = <<1, 2, 3, 4>>
    /\ in.isMainnet
    /\ out.res.Source = "a"

Neither(orderType) == orderType.Limit = None /\ orderType.Trigger = None

Both(orderType) == orderType.Limit # None /\ orderType.Trigger # None

\* C7: OrderTypeToWire, and so OrderRequestToOrderWire, returns an error and
\* no wire order when the order type has neither Limit nor Trigger.
C7_NeitherFails ==
    /\ (pc = "wire-typed" /\ Neither(in.order.OrderType)) =>
          out.res.err /\ out.res.wire = [Limit |-> None, Trigger |-> None]
    /\ (pc = "wire-ordered" /\ Neither(in.order.OrderType)) =>
          out.res.err /\ out.res.wire = None

C7_Witness ==
    /\ pc = "wire-ordered"
    /\ Neither(in.order.OrderType)
    /\ in.order.LimitPx = Dec(FALSE, 50000, 0, 0)
    /\ in.order.Sz = Dec(FALSE, 1, 50000000, 0)
    /\ out.res.err

\* C8: OrderTypeToWire, and so OrderRequestToOrderWire, returns an error and
\* no wire order when the order type has both Limit and Trigger.
C8_BothFails ==
    /\ (pc = "wire-typed" /\ Both(in.order.OrderType)) =>
          out.res.err /\ out.res.wire = [Limit |-> None, Trigger |-> None]
    /\ (pc = "wire-ordered" /\ Both(in.order.OrderType)) =>
          out.res.err /\ out.res.wire = None

\* The strings among ChainIdSamples that are no integer.
NotANumber == { <<"0","x","z","z">>, <<>>, <<"6","6","e","e","e">> }

NoChainId(action) ==
    \/ "signatureChainId" \notin DOMAIN action
    \/ action["signatureChainId"].t # "string"
    \/ action["signatureChainId"].v \in NotANumber

\* C9: UserSignedPayload returns an error and the empty typed data whenever
\* the action has no string under signatureChainId or the string is no
\* integer; so it does for a transfer without signatureChainId.
C9_ChainIdRequired ==
    (pc = "user-payload" /\ NoChainId(in.action)) =>
        /\ out.res.err
        /\ out.res.data = NoTypedData

C9_Witness ==
    /\ pc = "user-payload"
    /\ in.wrapper = "SignUSDTransferAction"
    /\ DOMAIN in.action = {"destination", "amount", "time"}
    /\ out.res.err

\* C10: SignUserSignedAction sets signatureChainId to 0x66eee and
\* hyperliquidChain to Mainnet or Testnet by the flag before it builds the
\* typed data, whose domain is {HyperliquidSignTransaction, 1, 421614, zero
\* address}; and signing an action that holds exactly its own fields returns
\* a signature and no error.
C10_UserSignedActionSigns ==
    pc = "user-signed" =>
        /\ out.res.action["signatureChainId"] = Str(<<"0","x","6","6","e","e","e">>)
        /\ out.res.action["hyperliquidChain"] =
              Str(Chars(IF in.isMainnet THEN "Mainnet" ELSE "Testnet"))
        /\ out.res.data.Domain =
              [Name |-> Chars("HyperliquidSignTransaction"), Version |-> <<"1">>,
               ChainId |-> 421614,
               VerifyingContract |-> <<"0", "x">> \o [i \in 1..40 |-> "0"]]
        /\ out.res.data.Message = out.res.action
        /\ (\E ints \in IntTypes : in.action = OwnAction(in.wrapper, ints)) =>
              /\ ~out.res.err
              /\ Len(out.res.sig.R) = 66 /\ Len(out.res.sig.S) = 66
              /\ out.res.sig.V \in {27, 28}

\* "0x" followed by exactly n hex digits.
IsHexString(cs, n) ==
    /\ Len(cs) = n + 2
    /\ SubSeq(cs, 1, 2) = <<"0", "x">>
    /\ \A i \in 3..Len(cs) : FromHexChar(cs[i]) >= 0

\* C11: whenever SignInner returns a signature, r and s are each "0x" and 64
\* hex digits and v is the recovery id of the ECDSA signature plus 27, so 27
\* or 28; it returns an error and no signature exactly when the hash of the
\* domain or of the message cannot be built, or ECDSA signing fails.
C11_SignatureForm ==
    pc = "sign-done" =>
        LET failed ==
                \/ HashStruct(in.data.Types, "EIP712Domain", DomainMap(in.data.Domain)).err
                \/ HashStruct(in.data.Types, in.data.PrimaryType, in.data.Message).err
                \/ EcdsaSign(out.res.digest, in.privateKey).err
        IN  IF out.res.err
            THEN failed /\ out.res.sig = NoSignature
            ELSE /\ ~failed
                 /\ IsHexString(out.res.sig.R, 64)
                 /\ IsHexString(out.res.sig.S, 64)
                 /\ out.res.sig.V \in {27, 28}
                 /\ out.res.sig.V = EcdsaSign(out.res.digest, in.privateKey).bytes[65] + 27

C11_Witness ==
    pc = "sign-done" /\ ~out.res.err /\ out.res.sig.V = 28

IsDigit(c) == c \in {"0", "1", "2", "3", "4", "5", "6", "7", "8", "9"}

\* The canonical decimal form: an optional "-", at least one integer digit,
\* then optionally "." and 1 to 8 fractional digits, the last of them not 0.
IsCanonical(cs) ==
    LET body == IF cs # <<>> /\ cs[1] = "-" THEN Tail(cs) ELSE cs
        dots == {i \in 1..Len(body) : body[i] = "."}
        intLen == IF dots = {} THEN Len(body) ELSE (CHOOSE i \in dots : TRUE) - 1
    IN  /\ Cardinality(dots) <= 1
        /\ intLen >= 1
        /\ \A i \in 1..Len(body) : i \in dots \/ IsDigit(body[i])
        /\ dots # {} => /\ Len(body) - intLen - 1 \in 1..8
                        /\ body[Len(body)] # "0"

IsZero(x) == x.class = "finite" /\ x.ip = 0 /\ x.f8 = 0 /\ x.r = 0

\* C12: every string FloatToWire returns is in canonical form (so it neither
\* ends in "." nor starts with "+"), and a zero of either sign gives "0".
C12_CanonicalForm ==
    (pc = "num-wired" /\ ~out.res.err) =>
        /\ IsCanonical(out.res.s)
        /\ IsZero(in.x) => out.res.s = <<"0">>

\* The number a canonical string denotes.
ParseDecimal(cs) ==
    LET neg == cs # <<>> /\ cs[1] = "-"
        body == IF neg THEN Tail(cs) ELSE cs
        dots == {i \in 1..Len(body) : body[i] = "."}
        dot == IF dots = {} THEN Len(body) + 1 ELSE CHOOSE i \in dots : TRUE
        frac == SubSeq(body, dot + 1, Len(body))
    IN  Dec(neg, ParseDigits(SubSeq(body, 1, dot - 1), 1, 10, 0).n,
            ParseDigits(frac \o [i \in 1..(8 - Len(frac)) |-> "0"], 1, 10, 0).n, 0)

\* Equality of two finite floats: the two zeros are equal.
NumEq(a, b) == (IsZero(a) /\ IsZero(b)) \/ a = b

\* The distance from x to the nearest number of 8 fractional digits, in
\* units of 10^-13.
Nearest8Distance(x) == IF x.r <= 50000 THEN x.r ELSE 100000 - x.r

\* The nearest number of 8 fractional digits (to even on a tie).
Round8(x) ==
    LET up == x.r > 50000 \/ (x.r = 50000 /\ x.f8 % 2 = 1)
        f == IF up THEN x.f8 + 1 ELSE x.f8
    IN  Dec(x.neg, x.ip + (f \div 100000000), f % 100000000, 0)

WireExamples ==
    /\ in.x = Dec(FALSE, 1, 50000000, 0) => out.res.s = <<"1", ".", "5">>
    /\ in.x = Dec(FALSE, 0, 0, 0) => out.res.s = <<"0">>
    /\ in.x = Dec(FALSE, 1000000, 0, 0) => out.res.s = <<"1", "0", "0", "0", "0", "0", "0">>
    /\ in.x = Dec(FALSE, 0, 1, 0) =>
           out.res.s = <<"0", ".", "0", "0", "0", "0", "0", "0", "0", "1">>

\* C13 as stated: for every finite x FloatToWire returns an error and no
\* string when rounding to 8 fractional digits changes x by 1e-12 or more,
\* and otherwise a string that parsed back equals x.
C13_LosslessOrFails ==
    (pc = "num-wired" /\ in.x.class = "finite") =>
        /\ out.res.err <=> Nearest8Distance(in.x) >= 10
        /\ out.res.err => out.res.s = <<>>
        /\ ~out.res.err => NumEq(ParseDecimal(out.res.s), in.x) /\ WireExamples

\* C13, amended: for every finite x FloatToWire returns an error and no
\* string when rounding to 8 fractional digits changes x by 1e-12 or more,
\* and otherwise a string that parsed back equals x rounded to 8 fractional
\* digits, which is x itself when x has no more than 8 and is less than
\* 1e-12 away from x when it has.
C13_RoundedOrFails ==
    (pc = "num-wired" /\ in.x.class = "finite") =>
        /\ out.res.err <=> Nearest8Distance(in.x) >= 10
        /\ out.res.err => out.res.s = <<>>
        /\ ~out.res.err =>
              /\ NumEq(ParseDecimal(out.res.s), Round8(in.x))
              /\ in.x.r = 0 => NumEq(ParseDecimal(out.res.s), in.x)
              /\ Nearest8Distance(in.x) < 10
              /\ WireExamples

\* A value of more than 8 fractional digits that comes back as a string.
C13_Witness ==
    /\ pc = "num-wired" /\ ~out.res.err
    /\ in.x = Dec(FALSE, 1, 50000000, 1)
    /\ out.res.s = <<"1", ".", "5">>

\* x * 10^power as whole + frac, frac counting units of 1 / (scale * 10^5)
\* as <<hi, lo>> with hi * 10^5 + lo units.
Scaled(x, power) ==
    LET scale == 10 ^ (8 - power) IN
    [scale |-> scale,
     whole |-> x.ip * (10 ^ power) + (x.f8 \div scale),
     frac |-> << x.f8 % scale, x.r >>]

\* 1 - frac
Complement(sc) ==
    IF sc.frac[2] = 0 THEN << sc.scale - sc.frac[1], 0 >>
    ELSE << sc.scale - sc.frac[1] - 1, 100000 - sc.frac[2] >>

\* The distance from x * 10^power to the nearest integer is below 1e-3.
RoundsWithin(x, power) ==
    LET sc == Scaled(x, power)
        eps == << sc.scale \div 1000, (sc.scale % 1000) * 100 >>
    IN  ~PairGE(sc.frac, eps) \/ ~PairGE(Complement(sc), eps)

\* n is x * 10^power rounded to the nearest integer, a half away from zero.
IsRoundOf(n, x, power) ==
    LET sc == Scaled(x, power)
        m == (IF x.neg THEN 0 - n ELSE n) - sc.whole
    IN  /\ m \in {0, 1}
        /\ m = 1 <=> PairGE(sc.frac, << sc.scale \div 2, (sc.scale % 2) * 50000 >>)

\* C14: FloatToInt(x, p) returns round(x * 10^p) when the rounding changes
\* x * 10^p by less than 1e-3, and an error with result 0 otherwise;
\* FloatToInt(100.123456, 6) is 100123456, FloatToInt(0.12345678, 8) is
\* 12345678 and FloatToInt(0, 8) is 0.
C14_FloatToInt ==
    pc = "num-fixed" =>
        /\ IF in.x.class = "finite" /\ RoundsWithin(in.x, out.power)
           THEN ~out.res.err /\ IsRoundOf(out.res.n, in.x, out.power)
           ELSE out.res.err /\ out.res.n = 0
        /\ (in.x = Dec(FALSE, 100, 12345600, 0) /\ out.power = 6) => out.res.n = 100123456
        /\ (in.x = Dec(FALSE, 0, 12345678, 0) /\ out.power = 8) => out.res.n = 12345678
        /\ (in.x = Dec(FALSE, 0, 0, 0) /\ out.power = 8) => out.res.n = 0

\* cs is the canonical string of x rounded to 8 fractional digits.
IsCanonicalOf(cs, x) ==
    x.class = "finite" /\ IsCanonical(cs) /\ NumEq(ParseDecimal(cs), Round8(x))

\* FloatToWire refuses x.
Lossy(x) == x.class = "finite" /\ Nearest8Distance(x) >= 10

\* C15: OrderRequestToOrderWire preserves the request.  A conversion that
\* returns a wire order gives A the asset index, B IsBuy, R ReduceOnly, P and
\* S the canonical strings of LimitPx and Sz, C the request's Cloid, and an
\* order type with the Limit time-in-force unchanged or, for Trigger, with
\* isMarket and tpsl unchanged and the canonical string of the trigger
\* price; it returns an error and no wire order exactly when a numeric or the
\* order-type conversion fails.
C15_PreservesRequest ==
    pc = "wire-ordered" =>
        LET order == in.order
            type == order.OrderType
            fails == \/ Lossy(order.LimitPx)
                     \/ Lossy(order.Sz)
                     \/ type.Limit = None /\ type.Trigger = None
                     \/ type.Limit = None /\ type.Trigger # None
                        /\ Lossy(type.Trigger[1].TriggerPx)
        IN  IF out.res.err THEN fails /\ out.res.wire = None
            ELSE LET wire == out.res.wire[1] IN
                 /\ ~fails
                 /\ wire.A = in.asset
                 /\ wire.B = order.IsBuy
                 /\ wire.R = order.ReduceOnly
                 /\ IsCanonicalOf(wire.P, order.LimitPx)
                 /\ IsCanonicalOf(wire.S, order.Sz)
                 /\ wire.C = order.Cloid
                 /\ type.Limit # None =>
                        wire.T = [Limit |-> type.Limit, Trigger |-> None]
                 /\ type.Limit = None =>
                        /\ wire.T.Limit = None
                        /\ wire.T.Trigger # None
                        /\ wire.T.Trigger[1].IsMarket = type.Trigger[1].IsMarket
                        /\ wire.T.Trigger[1].TPSL = type.Trigger[1].TPSL
                        /\ IsCanonicalOf(wire.T.Trigger[1].TriggerPx,
                                         type.Trigger[1].TriggerPx)

\* C16: in every OrderWire that OrderRequestToOrderWire returns, the client
\* order id C is absent or "0x" followed by exactly 32 hex digits.
C16_CloidForm ==
    (pc = "wire-ordered" /\ ~out.res.err) =>
        \/ out.res.wire[1].C = None
        \/ IsHexString(out.res.wire[1].C[1], 32)

\* C17: the action OrderWiresToOrderAction returns has type "order",
\* grouping "na", the input wire orders in the same order and number, and a
\* builder entry, equal to the supplied builder, exactly when one is
\* supplied.
C17_OrderAction ==
    pc = "action-built" =>
        /\ out.res["type"] = "order"
        /\ out.res["grouping"] = "na"
        /\ Len(out.res["orders"]) = Len(in.orderWires)
        /\ \A i \in 1..Len(in.orderWires) : out.res["orders"][i] = in.orderWires[i]
        /\ "builder" \in DOMAIN out.res <=> in.builder # None
        /\ in.builder # None => out.res["builder"] = in.builder[1]
        /\ DOMAIN out.res \subseteq {"type", "orders", "grouping", "builder"}

\* Two different wire orders and a builder.
C17_Witness ==
    /\ pc = "action-built"
    /\ Len(in.orderWires) = 2 /\ in.orderWires[1] # in.orderWires[2]
    /\ in.builder = Some("test-builder")
    /\ out.res["builder"] = "test-builder"

\* The posting methods of Exchange, by the position they leave the run in.
PostingPositions ==
    { "exchange-posted", "exchange-ordered", "exchange-cancelled",
      "exchange-leveraged", "exchange-class-transferred", "exchange-transferred" }

\* The last call handed a payload to the transport.
Posted == pc \in PostingPositions /\ out.res.posted # None

PostedPayload == out.res.posted[1]

\* The string under "type" of the posted action, empty when there is none.
PostedActionType ==
    IF "type" \notin DOMAIN PostedPayload.action THEN <<>>
    ELSE IF pc \in {"exchange-ordered", "exchange-cancelled", "exchange-leveraged"}
    THEN Chars(PostedPayload.action["type"])
    ELSE IF PostedPayload.action["type"].t = "string"
    THEN PostedPayload.action["type"].v
    ELSE <<>>

\* C18: every payload that postAction hands to the transport holds
\* vaultAddress exactly when the Exchange has a vault address and the type
\* of the action is neither usdClassTransfer nor sendAsset, and holds
\* expiresAfter exactly when SetExpiresAfter has set an expiry; the two
\* entries are the vault address and the expiry of the Exchange.
C18_VaultAndExpiry ==
    Posted =>
        /\ "vaultAddress" \in DOMAIN PostedPayload
           <=> /\ in.vaultAddress # None
               /\ PostedActionType # Chars("usdClassTransfer")
               /\ PostedActionType # Chars("sendAsset")
        /\ "vaultAddress" \in DOMAIN PostedPayload
           => PostedPayload["vaultAddress"] = Str(in.vaultAddress[1])
        /\ "expiresAfter" \in DOMAIN PostedPayload <=> in.expiresAfter # None
        /\ "expiresAfter" \in DOMAIN PostedPayload
           => PostedPayload["expiresAfter"] = Int64(in.expiresAfter[1])

\* A usdClassTransfer posted by an Exchange that has a vault address and an
\* expiry: the payload holds the expiry and no vault address.
C18_Witness ==
    /\ Posted
    /\ PostedActionType = Chars("usdClassTransfer")
    /\ in.vaultAddress # None
    /\ in.expiresAfter # None
    /\ DOMAIN PostedPayload = {"action", "nonce", "signature", "expiresAfter"}

\* C19: every payload handed to the transport carries the signature as an
\* object of three fields: r and s, each "0x" and 64 hex digits, and v, 27 or
\* 28.
C19_StructuredSignature ==
    Posted =>
        /\ PostedPayload.signature.t = "object"
        /\ DOMAIN PostedPayload.signature.v = {"r", "s", "v"}
        /\ IsHexString(PostedPayload.signature.v.r, 64)
        /\ IsHexString(PostedPayload.signature.v.s, 64)
        /\ PostedPayload.signature.v.v \in {27, 28}

\* m1 and m2 are maps over the same keys that agree on every key but key.
AgreeExcept(m1, m2, key) ==
    /\ DOMAIN m1 = DOMAIN m2
    /\ \A k \in DOMAIN m1 \ {key} : m1[k] = m2[k]

\* The domain, the schema and the message of two typed data are the same but
\* for the message field key.
SameTypedDataExcept(d1, d2, key) ==
    /\ d1.Domain = d2.Domain
    /\ d1.Types = d2.Types
    /\ d1.PrimaryType = d2.PrimaryType
    /\ AgreeExcept(d1.Message, d2.Message, key)

\* C20: the same call made with isMainnet true and with isMainnet false
\* fails in both runs or in neither, and differs only in the source of the
\* phantom agent ("a" and "b") for an L1 action, with the same action hash,
\* and only in hyperliquidChain ("Mainnet" and "Testnet") for a user-signed
\* action: domain, schema and every other field of the message are the same.
C20_NetworkChangesOnlyTheTag ==
    pc = "net-both" =>
        IF in.kind = "l1"
        THEN /\ out.res.hashed.err = again.res.hashed.err
             /\ ~out.res.hashed.err =>
                   /\ out.res.hashed.hash = again.res.hashed.hash
                   /\ SameTypedDataExcept(out.res.data, again.res.data, "source")
                   /\ out.res.data.Message["source"] = Str(<<"a">>)
                   /\ again.res.data.Message["source"] = Str(<<"b">>)
        ELSE /\ AgreeExcept(out.res.action, again.res.action, "hyperliquidChain")
             /\ out.res.action["hyperliquidChain"] = Str(Chars("Mainnet"))
             /\ again.res.action["hyperliquidChain"] = Str(Chars("Testnet"))
             /\ (out.res.data = NoTypedData) = (again.res.data = NoTypedData)
             /\ out.res.data # NoTypedData =>
                   SameTypedDataExcept(out.res.data, again.res.data,
                                       "hyperliquidChain")

\* C25: SignUserSignedAction leaves the caller's map with signatureChainId
\* "0x66eee" and hyperliquidChain the name of the network, whatever the
\* caller held under the two keys, and with every other key and value as it
\* was; the message of the typed data holds every key of that map with its
\* value, a key such as type included.
C25_FrameOfUserSignedAction ==
    pc = "user-signed" =>
        /\ DOMAIN out.res.action =
              DOMAIN in.action \cup {"signatureChainId", "hyperliquidChain"}
        /\ out.res.action["signatureChainId"] = Str(Chars("0x66eee"))
        /\ out.res.action["hyperliquidChain"] =
              Str(Chars(IF in.isMainnet THEN "Mainnet" ELSE "Testnet"))
        /\ \A k \in DOMAIN in.action \ {"signatureChainId", "hyperliquidChain"} :
              out.res.action[k] = in.action[k]
        /\ DOMAIN out.res.data.Message = DOMAIN out.res.action
        /\ \A k \in DOMAIN out.res.action :
              out.res.data.Message[k] = out.res.action[k]

\* A transfer on testnet by a caller that holds a type tag, a chain id of
\* its own and the name of the other network.
C25_Witness ==
    /\ pc = "user-signed"
    /\ ~in.isMainnet
    /\ "type" \in DOMAIN in.action
    /\ "signatureChainId" \in DOMAIN in.action
    /\ in.action["signatureChainId"] = Str(Chars("421614"))
    /\ "hyperliquidChain" \in DOMAIN in.action
    /\ in.action["hyperliquidChain"] = Str(Chars("Mainnet"))
    /\ out.res.action["hyperliquidChain"] = Str(Chars("Testnet"))
    /\ out.res.data.Message["type"] = Str(Chars("usdSend"))

\* The last call was one of BulkOrders, BulkCancel and UpdateLeverage.
L1Called == pc \in {"exchange-ordered", "exchange-cancelled", "exchange-leveraged"}

\* A name of the call has no asset, an order of the call has no wire form,
\* or the action cannot be signed (the vault address is no hex).
ElementFails ==
    \/ \E i \in 1..Len(out.names) : out.names[i] \notin {"BTC", "PURR"}
    \/ \E i \in 1..Len(out.orders) : OrderRequestToOrderWire(out.orders[i], 0).err
    \/ in.vaultAddress # None /\ AddressToBytes(in.vaultAddress[1]).err

\* C22: a call of BulkOrders, BulkCancel or UpdateLeverage in which a lookup,
\* a conversion or the signing fails returns an error and posts nothing; and
\* a posted payload carries the signature of a call of SignL1Action that
\* succeeded on exactly the posted action and the posted nonce.
C22_FailsAtomically ==
    L1Called =>
        /\ ElementFails => out.res.err /\ out.res.posted = None
        /\ out.res.posted # None =>
              /\ ~out.res.signed.err
              /\ PostedPayload.signature = Str(SignatureString(out.res.signed.sig))
              /\ \E iter \in IterationOrders(PostedPayload.action) :
                    out.res.signed.hashed =
                        ActionHash(PostedPayload.action, in.vaultAddress,
                                   PostedPayload.nonce.v, in.expiresAfter, iter)

\* A call of BulkOrders whose only order has no wire form: an error and no
\* post.
C22_Witness ==
    /\ pc = "exchange-ordered"
    /\ Len(out.orders) = 1
    /\ out.names = <<"BTC">>
    /\ OrderRequestToOrderWire(out.orders[1], 0).err
    /\ in.vaultAddress = None
    /\ out.res.err
    /\ out.res.posted = None

\* C23: of two actions that an Exchange posts one after the other, the
\* second carries a nonce strictly greater than the first.
C23_NonceIncreases ==
    (again.prev # None /\ again.last # None) =>
        again.last[1].nonce > again.prev[1]

\* C24: the expiresAfter of a posted payload is the expiry that went into
\* the hash of its signature: both absent, or both the same number.
C24_PostedExpiryIsSignedExpiry ==
    again.last # None => again.last[1].expiresAfter = again.last[1].hashed

\* The call of thread t run alone returns r.
ReturnsAlone(t, r) ==
    IF in[t].kind = "l1"
    THEN \E iter \in IterationOrders(in[t].action) :
            r = SignL1Action(<<7, 1>>, in[t].action, in[t].vaultAddress, in[t].nonce,
                             in[t].expiresAfter, in[t].isMainnet, iter)
    ELSE r = SignUserSignedAction(<<7, 1>>, in[t].action,
                                  PayloadTypesOf(in[t].wrapper),
                                  PrimaryTypeOf(in[t].wrapper), in[t].isMainnet)

\* The map of thread t as the steps t has taken by itself leave it.
OwnProgress(t) ==
    LET chainId == ("signatureChainId" :> Str(Chars("0x66eee")))
        chain == ("hyperliquidChain" :>
                     Str(Chars(IF in[t].isMainnet THEN "Mainnet" ELSE "Testnet")))
    IN  IF in[t].kind = "l1" \/ pc[t] = "thread-ready" THEN in[t].action
        ELSE IF pc[t] = "thread-chain-id" THEN chainId @@ in[t].action
        ELSE chain @@ chainId @@ in[t].action

SubscribeMsg(subscription) == [method |-> "subscribe", subscription |-> subscription]

\* The manager w holds the subscription, once, among the active ones of its
\* identifier, with this callback and this ID.
Registered(w, subscription, callback, subscriptionID) ==
    Cardinality({ i \in 1..Len(ActiveOf(w, subscriptionToIdentifier(subscription))) :
                    ActiveOf(w, subscriptionToIdentifier(subscription))[i]
                        = [Callback |-> callback, SubscriptionID |-> subscriptionID] }) = 1

SingleIdentifiers == {Chars("userEvents"), Chars("orderUpdates")}

\* C26: a Subscribe before the connection-established message appends to
\* the queue and writes nothing; handling that message registers every
\* queued subscription, writes one subscribe message for each in the order
\* of the requests and empties the queue; a Subscribe after it registers the
\* subscription, writes its message and leaves the queue alone.
C26_QueuedUntilOpen ==
    /\ (out.op = "Subscribe" /\ ~out.before.wsReady) =>
          /\ out.sent = <<>>
          /\ in.queuedSubscriptions =
                Append(out.before.queuedSubscriptions,
                       [subscription |-> out.subscription,
                        active |-> [Callback |-> out.callback,
                                    SubscriptionID |-> out.returned]])
    /\ out.op = "onOpen" =>
          /\ in.queuedSubscriptions = <<>>
          /\ out.sent = [i \in 1..Len(out.before.queuedSubscriptions) |->
                            SubscribeMsg(out.before.queuedSubscriptions[i].subscription)]
          /\ \A i \in 1..Len(out.before.queuedSubscriptions) :
                Registered(in, out.before.queuedSubscriptions[i].subscription,
                           out.before.queuedSubscriptions[i].active.Callback,
                           out.before.queuedSubscriptions[i].active.SubscriptionID)
    /\ (out.op = "Subscribe" /\ out.before.wsReady) =>
          /\ out.sent = <<SubscribeMsg(out.subscription)>>
          /\ Registered(in, out.subscription, out.callback, out.returned)
          /\ in.queuedSubscriptions = out.before.queuedSubscriptions

\* The i-th queued subscription is one onOpen refuses: a userEvents or
\* orderUpdates subscription when one is active or queued before it.
RefusedAtOpen(w, i) ==
    /\ subscriptionToIdentifier(w.queuedSubscriptions[i].subscription) \in SingleIdentifiers
    /\ \/ Len(ActiveOf(w, subscriptionToIdentifier(w.queuedSubscriptions[i].subscription))) # 0
       \/ \E j \in 1..(i - 1) :
              subscriptionToIdentifier(w.queuedSubscriptions[j].subscription)
                  = subscriptionToIdentifier(w.queuedSubscriptions[i].subscription)

\* The indices of the queue of w that onOpen accepts, in their order.
RECURSIVE AcceptedAtOpen(_, _)
AcceptedAtOpen(w, i) ==
    IF i > Len(w.queuedSubscriptions) THEN <<>>
    ELSE (IF RefusedAtOpen(w, i) THEN <<>> ELSE <<i>>) \o AcceptedAtOpen(w, i + 1)

\* C26, amended: as C26, but a subscription for userEvents or orderUpdates
\* is neither registered nor sent when one is already active or was queued
\* before it; all others are registered and sent once, in the order of the
\* requests.
C26_QueuedUntilOpenUnlessRefused ==
    /\ (out.op = "Subscribe" /\ ~out.before.wsReady) =>
          /\ out.sent = <<>>
          /\ in.activeSubscriptions = out.before.activeSubscriptions
          /\ in.queuedSubscriptions =
                Append(out.before.queuedSubscriptions,
                       [subscription |-> out.subscription,
                        active |-> [Callback |-> out.callback,
                                    SubscriptionID |-> out.returned]])
    /\ out.op = "onOpen" =>
          /\ in.queuedSubscriptions = <<>>
          /\ out.sent = [n \in 1..Len(AcceptedAtOpen(out.before, 1)) |->
                SubscribeMsg(out.before.queuedSubscriptions[
                                 AcceptedAtOpen(out.before, 1)[n]].subscription)]
          /\ \A i \in 1..Len(out.before.queuedSubscriptions) :
                Registered(in, out.before.queuedSubscriptions[i].subscription,
                           out.before.queuedSubscriptions[i].active.Callback,
                           out.before.queuedSubscriptions[i].active.SubscriptionID)
                    = ~RefusedAtOpen(out.before, i)
    /\ (out.op = "Subscribe" /\ out.before.wsReady) =>
          /\ in.queuedSubscriptions = out.before.queuedSubscriptions
          /\ IF /\ subscriptionToIdentifier(out.subscription) \in SingleIdentifiers
                /\ Len(ActiveOf(out.before, subscriptionToIdentifier(out.subscription))) # 0
             THEN /\ out.sent = <<>>
                  /\ in.activeSubscriptions = out.before.activeSubscriptions
             ELSE /\ out.sent = <<SubscribeMsg(out.subscription)>>
                  /\ Registered(in, out.subscription, out.callback, out.returned)

\* The connection-established message found two subscriptions queued and
\* both were sent, and nothing is queued any more.
C26_Witness ==
    /\ out.op = "onOpen"
    /\ Len(out.before.queuedSubscriptions) = 2
    /\ Len(out.sent) = 2
    /\ in.queuedSubscriptions = <<>>

\* C27: at most one subscription is active under userEvents and at most one
\* under orderUpdates; a Subscribe for one of them while one is active
\* leaves the active subscriptions as they were and writes no message.
C27_SingleUserSubscription ==
    /\ \A identifier \in SingleIdentifiers : Len(ActiveOf(in, identifier)) <= 1
    /\ ( /\ out.op = "Subscribe"
         /\ subscriptionToIdentifier(out.subscription) \in SingleIdentifiers
         /\ Len(ActiveOf(out.before, subscriptionToIdentifier(out.subscription))) # 0 )
       => /\ in.activeSubscriptions = out.before.activeSubscriptions
          /\ out.sent = <<>>

\* A second Subscribe for userEvents or orderUpdates on an open connection.
C27_Witness ==
    /\ out.op = "Subscribe"
    /\ out.returned = 2
    /\ subscriptionToIdentifier(out.subscription) \in SingleIdentifiers
    /\ Len(ActiveOf(out.before, subscriptionToIdentifier(out.subscription))) = 1
    /\ Len(ActiveOf(in, subscriptionToIdentifier(out.subscription))) = 1

KeepsID(active) == active.SubscriptionID # out.subscriptionID

\* C28: Unsubscribe before the connection is ready returns false, writes
\* nothing and leaves the manager as it was; once ready it leaves under the
\* identifier of the subscription the active subscriptions of another ID, in
\* their order, touches no other identifier nor the queue nor the counter,
\* and returns true exactly when the list became shorter.
C28_UnsubscribeRemovesTheID ==
    out.op = "Unsubscribe" =>
        IF ~out.before.wsReady
        THEN out.returned = FALSE /\ in = out.before /\ out.sent = <<>>
        ELSE /\ ActiveOf(in, subscriptionToIdentifier(out.subscription))
                   = SelectSeq(ActiveOf(out.before,
                                        subscriptionToIdentifier(out.subscription)),
                               KeepsID)
             /\ \A identifier \in (DOMAIN in.activeSubscriptions
                                      \cup DOMAIN out.before.activeSubscriptions)
                                  \ {subscriptionToIdentifier(out.subscription)} :
                   /\ identifier \in DOMAIN out.before.activeSubscriptions
                   /\ ActiveOf(in, identifier) = ActiveOf(out.before, identifier)
             /\ in.queuedSubscriptions = out.before.queuedSubscriptions
             /\ in.subscriptionIDCounter = out.before.subscriptionIDCounter
             /\ in.wsReady
             /\ out.returned
                   = (Len(ActiveOf(in, subscriptionToIdentifier(out.subscription)))
                        < Len(ActiveOf(out.before,
                                       subscriptionToIdentifier(out.subscription))))

\* An Unsubscribe on an open connection that removed one of two
\* subscriptions of one identifier.
C28_Witness ==
    /\ out.op = "Unsubscribe"
    /\ out.before.wsReady
    /\ out.returned
    /\ Len(ActiveOf(out.before, subscriptionToIdentifier(out.subscription))) = 2
    /\ Len(ActiveOf(in, subscriptionToIdentifier(out.subscription))) = 1

\* C29: the IDs Subscribe returned grow with every call; once the connection
\* is ready, every returned ID that Unsubscribe was not called with is
\* registered with its callback, and a message of its identifier calls that
\* callback.
C29_IDNamesASubscription ==
    /\ \A k \in 1..Len(again.calls) : \A j \in 1..(k - 1) :
          again.calls[k].returned > again.calls[j].returned
    /\ in.wsReady =>
          \A k \in 1..Len(again.calls) :
              again.calls[k].returned \notin again.unsubscribed =>
                  /\ Registered(in, again.calls[k].subscription, again.calls[k].callback,
                                again.calls[k].returned)
                  /\ ( /\ out.op = "onMessage"
                       /\ wsMsgToIdentifier(out.wsMsg)
                             = subscriptionToIdentifier(again.calls[k].subscription) )
                     => \E i \in 1..Len(out.called) :
                            out.called[i] = again.calls[k].callback

\* C30: an Unsubscribe that wrote a message removed a subscription and left
\* none under the identifier; one that removed nothing wrote none.
C30_UnsubscribeMessageOnlyForTheLast ==
    out.op = "Unsubscribe" =>
        /\ out.sent # <<>> =>
              /\ out.returned
              /\ Len(ActiveOf(in, subscriptionToIdentifier(out.subscription))) = 0
        /\ ~out.returned => out.sent = <<>>

====
